---- MODULE Spec2Model ----
(***************************************************************************)
(* Boolean text retrieval engine: tokenizer, inverted index with its       *)
(* binary persistence format, query optimizer and bit-vector evaluator.    *)
(*                                                                         *)
(* Strings (ds::String) are sequences of byte values 0..255.  A Vector is  *)
(* a TLA+ sequence; element i of the C++ vector is element i+1 here.       *)
(***************************************************************************)
EXTENDS Integers, Sequences, FiniteSets, TLC

\* ------------------------------------------------------------------------
\* Byte strings used as inputs
\* ------------------------------------------------------------------------
w_red       == <<114, 101, 100>>                              \* "red"
w_car       == <<99, 97, 114>>                                \* "car"
w_fast      == <<102, 97, 115, 116>>                          \* "fast"
w_blue      == <<98, 108, 117, 101>>                          \* "blue"
w_slow      == <<115, 108, 111, 119>>                         \* "slow"
w_motorbike == <<109, 111, 116, 111, 114, 98, 105, 107, 101>> \* "motorbike"
w_moscow    == <<109, 111, 115, 99, 111, 119>>                \* "moscow"
w_aviation  == <<97, 118, 105, 97, 116, 105, 111, 110>>       \* "aviation"
w_institute == <<105, 110, 115, 116, 105, 116, 117, 116, 101>> \* "institute"
w_founded   == <<102, 111, 117, 110, 100, 101, 100>>          \* "founded"
w_1930      == <<49, 57, 51, 48>>                             \* "1930"
w_in        == <<105, 110>>                                   \* "in"
w_is        == <<105, 115>>                                   \* "is"
w_called    == <<99, 97, 108, 108, 101, 100>>                 \* "called"
w_mai       == <<109, 97, 105>>                               \* "mai"
w_technical == <<116, 101, 99, 104, 110, 105, 99, 97, 108>>   \* "technical"
w_zz        == <<122, 122>>                                   \* "zz"
w_u0        == <<117, 48>>                                    \* "u0"
w_u1        == <<117, 49>>                                    \* "u1"
w_u2        == <<117, 50>>                                    \* "u2"
w_u4        == <<117, 52>>                                    \* "u4"
w_u9        == <<117, 57>>                                    \* "u9"
w_t1        == <<116, 49>>                                    \* "t1"
w_m0        == <<109, 48>>                                    \* "m0"
w_m1        == <<109, 49>>                                    \* "m1"
w_m2        == <<109, 50>>                                    \* "m2"
w_T         == <<84>>                                         \* "T"
w_bus       == <<98, 117, 115>>                               \* "bus"
w_http      == <<104, 116, 116, 112, 58, 47, 47, 97, 46, 98>> \* "http://a.b"
SP          == <<32>>                                         \* " "

RECURSIVE JoinWords(_)
\* The words of ws separated by single spaces.
JoinWords(ws) ==
    IF ws = <<>> THEN <<>>
    ELSE IF Len(ws) = 1 THEN ws[1]
    ELSE ws[1] \o SP \o JoinWords(Tail(ws))

\* ------------------------------------------------------------------------
\* Tokenizer
\* ------------------------------------------------------------------------
min_token_length_  == 2
max_token_length_  == 50
remove_numbers_    == FALSE
remove_punctuation_ == TRUE
case_folding_      == TRUE

\* The built-in stop-word list (UTF-8 bytes); the entries modelled here are
\* "и", "не", "на" of the list the constructor inserts.
stopwords_ ==
    { <<208, 184>>, <<208, 189, 208, 181>>, <<208, 189, 208, 176>> }

is_punctuation(c) ==
    \/ (c >= 33 /\ c <= 47)
    \/ (c >= 58 /\ c <= 64)
    \/ (c >= 91 /\ c <= 96)
    \/ (c >= 123 /\ c <= 126)

\* std::isspace in the "C" locale
isspace(c) == c = 32 \/ (c >= 9 /\ c <= 13)

\* std::isdigit
isdigit(c) == c >= 48 /\ c <= 57

\* std::tolower in the "C" locale
tolower(c) == IF c >= 65 /\ c <= 90 THEN c + 32 ELSE c

is_delimiter(c) == isspace(c) \/ is_punctuation(c)

is_stopword(word) == word \in stopwords_

RECURSIVE trim_start(_,_,_)
trim_start(token, start, end) ==
    IF start < end /\ is_punctuation(token[start + 1])
    THEN trim_start(token, start + 1, end) ELSE start

RECURSIVE trim_end(_,_,_)
trim_end(token, start, end) ==
    IF end > start /\ is_punctuation(token[end])
    THEN trim_end(token, start, end - 1) ELSE end

\* The test of normalize_token's copy loop: c is appended to the result.
copied(c) ==
    /\ ~(remove_numbers_ /\ isdigit(c))
    /\ ~(remove_punctuation_ /\ is_punctuation(c) /\ c # 39 /\ c # 45)

\* for (i = start; i < end; ++i) of normalize_token: the bytes of
\* token[i .. end) that pass the test, case-folded, appended to result.
normalize_copy(token, i, end, result) ==
    LET folded(kept) ==
            [k \in 1 .. Len(kept) |->
                 IF case_folding_ THEN tolower(kept[k]) ELSE kept[k]]
    IN  result \o folded(SelectSeq(SubSeq(token, i + 1, end), copied))

normalize_token(token) ==
    IF token = <<>> THEN token
    ELSE LET start == IF remove_punctuation_
                      THEN trim_start(token, 0, Len(token)) ELSE 0
             end   == IF remove_punctuation_
                      THEN trim_end(token, start, Len(token)) ELSE Len(token)
         IN normalize_copy(token, start, end, <<>>)

\* A token delimited by a delimiter or by the end of the text is kept when
\* its normalized length is within [min, max] and it is not a stop-word.
TokenAccepted(normalized) ==
    /\ Len(normalized) >= min_token_length_
    /\ Len(normalized) <= max_token_length_
    /\ ~is_stopword(normalized)

\* A token flushed because it outgrew max_token_length_ is kept without the
\* upper length test.
TokenAcceptedOverlong(normalized) ==
    /\ Len(normalized) >= min_token_length_
    /\ ~is_stopword(normalized)

\* The value stored in TokenWithPosition::position.
TokenPosition(token_start, emitted) == token_start

TokenInfo(current_token, token_start, emitted) ==
    [token    |-> normalize_token(current_token),
     position |-> TokenPosition(token_start, emitted),
     length   |-> Len(current_token)]

\* tokens with the token current_token, which began at token_start, added
\* when accepted, the test the caller made of its
\* normalized form, holds.
twp_push(tokens, current_token, token_start, accepted) ==
    IF current_token # <<>> /\ accepted
    THEN Append(tokens, TokenInfo(current_token, token_start, Len(tokens)))
    ELSE tokens

RECURSIVE twp_loop(_,_,_,_,_)
\* for (i = 0; i < text.size(); ++i) of tokenize_with_positions, and the
\* flush after it.  The cases are those of the loop body: a delimiter, a
\* byte that makes the token longer than max_token_length_, any other byte.
twp_loop(text, i, current_token, token_start, tokens) ==
    CASE i >= Len(text) ->
            twp_push(tokens, current_token, token_start,
                         TokenAccepted(normalize_token(current_token)))
      [] i < Len(text) /\ is_delimiter(text[i + 1]) ->
            twp_loop(text, i + 1, <<>>, i + 1,
                twp_push(tokens, current_token, token_start,
                         TokenAccepted(normalize_token(current_token))))
      [] i < Len(text) /\ ~is_delimiter(text[i + 1])
            /\ Len(current_token) >= max_token_length_ ->
            twp_loop(text, i + 1, <<>>, i + 1,
                twp_push(tokens, Append(current_token, text[i + 1]),
                         IF current_token = <<>> THEN i ELSE token_start,
                         TokenAcceptedOverlong(normalize_token(
                             Append(current_token, text[i + 1])))))
      [] OTHER ->
            twp_loop(text, i + 1, Append(current_token, text[i + 1]),
                IF current_token = <<>> THEN i ELSE token_start, tokens)

tokenize_with_positions(text) ==
    IF text = <<>> THEN <<>> ELSE twp_loop(text, 0, <<>>, 0, <<>>)

\* tokens with the normalized form of current_token added when accepted,
\* the test the caller made of it, holds.
tok_push(tokens, current_token, accepted) ==
    IF current_token # <<>> /\ accepted
    THEN Append(tokens, normalize_token(current_token))
    ELSE tokens

RECURSIVE tok_loop(_,_,_,_)
\* for (i = 0; i < text.size(); ++i) of tokenize, and the flush after it
tok_loop(text, i, current_token, tokens) ==
    CASE i >= Len(text) -> tok_push(tokens, current_token,
                         TokenAccepted(normalize_token(current_token)))
      [] i < Len(text) /\ is_delimiter(text[i + 1]) ->
            tok_loop(text, i + 1, <<>>,
                tok_push(tokens, current_token,
                         TokenAccepted(normalize_token(current_token))))
      [] i < Len(text) /\ ~is_delimiter(text[i + 1])
            /\ Len(current_token) >= max_token_length_ ->
            tok_loop(text, i + 1, <<>>,
                tok_push(tokens, Append(current_token, text[i + 1]),
                         TokenAcceptedOverlong(normalize_token(
                             Append(current_token, text[i + 1])))))
      [] OTHER ->
            tok_loop(text, i + 1, Append(current_token, text[i + 1]), tokens)

\* Vector<String> tokenize(text)
tokenize(text) ==
    IF text = <<>> THEN <<>> ELSE tok_loop(text, 0, <<>>, <<>>)

\* ------------------------------------------------------------------------
\* HashTable<K, V> with open addressing and quadratic probing
\* ------------------------------------------------------------------------
DEFAULT_CAPACITY == 16

PRIMES == <<17, 31, 67, 127, 257, 509, 1021, 2053, 4099, 8191,
            16381, 32771, 65537, 131071, 262147, 524287, 1048573>>

\* Nodes that are not occupied never have their key or value read, so they
\* are kept in this canonical form.
EmptyNode ==
    [key |-> <<>>, value |-> <<>>, occupied |-> FALSE, deleted |-> FALSE]

NewHashTable ==
    [table_    |-> [i \in 0 .. DEFAULT_CAPACITY - 1 |-> EmptyNode],
     size_     |-> 0,
     capacity_ |-> DEFAULT_CAPACITY]

RECURSIVE djb2(_,_,_,_)
\* std::hash<ds::String> reduced modulo m at every step.  The reduction
\* agrees with the 64-bit computation when m divides 2^64 (the default
\* capacity) and for keys short enough not to wrap (up to 10 bytes).
djb2(str, i, hash, m) ==
    IF i > Len(str) THEN hash
    ELSE djb2(str, i + 1, (hash * 33 + str[i]) % m, m)

hash_index(ht, key) == djb2(key, 1, 5381 % ht.capacity_, ht.capacity_)

RECURSIVE find_index_loop(_,_,_,_,_)
find_index_loop(ht, key, start_index, index, i) ==
    LET node == ht.table_[index] IN
    IF ~node.occupied /\ ~node.deleted THEN ht.capacity_
    ELSE IF node.occupied /\ ~node.deleted /\ node.key = key THEN index
    ELSE LET next == (start_index + i * i) % ht.capacity_ IN
         IF next = start_index THEN ht.capacity_
         ELSE find_index_loop(ht, key, start_index, next, i + 1)

find_index(ht, key) ==
    LET h == hash_index(ht, key) IN find_index_loop(ht, key, h, h, 1)

RECURSIVE find_insert_index_loop(_,_,_,_,_,_)
find_insert_index_loop(ht, key, start_index, index, i, first_deleted) ==
    LET node == ht.table_[index] IN
    IF ~node.occupied THEN
        IF first_deleted # ht.capacity_ THEN first_deleted ELSE index
    ELSE IF ~node.deleted /\ node.key = key THEN index
    ELSE LET fd   == IF node.deleted /\ first_deleted = ht.capacity_
                     THEN index ELSE first_deleted
             next == (start_index + i * i) % ht.capacity_
         IN  IF next = start_index THEN fd
             ELSE find_insert_index_loop(ht, key, start_index, next, i + 1, fd)

find_insert_index(ht, key) ==
    LET h == hash_index(ht, key)
    IN  find_insert_index_loop(ht, key, h, h, 1, ht.capacity_)

RECURSIVE next_prime(_,_)
next_prime(new_capacity, i) ==
    IF i > Len(PRIMES) THEN new_capacity
    ELSE IF PRIMES[i] > new_capacity THEN PRIMES[i]
    ELSE next_prime(new_capacity, i + 1)

\* Stores (key, value) at the slot find_insert_index chose.
\* Result: [ht, ok].
insert_at(ht, key, value) ==
    LET index == find_insert_index(ht, key) IN
    IF index = ht.capacity_ THEN [ht |-> ht, ok |-> FALSE]
    ELSE LET node == ht.table_[index] IN
         IF ~node.occupied \/ node.deleted THEN
             [ht |-> [ht EXCEPT
                        !.table_[index] = [key |-> key, value |-> value,
                                           occupied |-> TRUE,
                                           deleted |-> FALSE],
                        !.size_ = @ + 1],
              ok |-> TRUE]
         ELSE [ht |-> [ht EXCEPT !.table_[index].value = value],
               ok |-> TRUE]

RECURSIVE rehash_move(_,_,_)
rehash_move(old, i, ht) ==
    IF i >= old.capacity_ THEN ht
    ELSE IF old.table_[i].occupied /\ ~old.table_[i].deleted
    THEN rehash_move(old, i + 1,
             insert_at(ht, old.table_[i].key, old.table_[i].value).ht)
    ELSE rehash_move(old, i + 1, ht)

rehash(ht) ==
    LET new_capacity == next_prime(ht.capacity_ * 2, 1) IN
    rehash_move(ht, 0,
        [table_    |-> [i \in 0 .. new_capacity - 1 |-> EmptyNode],
         size_     |-> 0,
         capacity_ |-> new_capacity])

\* bool insert(const K&, const V&).  Result: [ht, ok].
\* (size_ + 1) / capacity_ > 0.75 is compared exactly as 4(size_+1) > 3 capacity_.
insert(ht, key, value) ==
    LET t == IF 4 * (ht.size_ + 1) > 3 * ht.capacity_ THEN rehash(ht) ELSE ht
    IN  insert_at(t, key, value)

\* V* find(const K&): the slot index, or capacity_ for nullptr.
find(ht, key) == find_index(ht, key)

Found(ht, key) == find_index(ht, key) < ht.capacity_

ValueAt(ht, key) == ht.table_[find_index(ht, key)].value

RECURSIVE keys_loop(_,_,_)
keys_loop(ht, i, result) ==
    IF i >= ht.capacity_ THEN result
    ELSE keys_loop(ht, i + 1,
             IF ht.table_[i].occupied /\ ~ht.table_[i].deleted
             THEN Append(result, ht.table_[i].key) ELSE result)

keys(ht) == keys_loop(ht, 0, <<>>)

\* bool erase(const K&).  Result: [ht, ok].  The node keeps its key and
\* value; only its flags change.
erase(ht, key) ==
    LET index == find_index(ht, key) IN
    IF index < ht.capacity_
    THEN [ht |-> [ht EXCEPT !.table_[index].deleted = TRUE,
                            !.table_[index].occupied = FALSE,
                            !.size_ = @ - 1],
          ok |-> TRUE]
    ELSE [ht |-> ht, ok |-> FALSE]

\* bool contains(const K&)
contains(ht, key) == find_index(ht, key) < ht.capacity_

\* void clear()
hash_clear(ht) ==
    [ht EXCEPT !.table_ = [i \in 0 .. ht.capacity_ - 1 |-> EmptyNode],
               !.size_ = 0]

\* ------------------------------------------------------------------------
\* InvertedIndex: documents, postings, statistics
\* ------------------------------------------------------------------------
\* Document(doc_id, title, url, content) as callers build it (id 0, length 0).
Document(doc_title, doc_url, doc_content) ==
    [id |-> 0, title |-> doc_title, url |-> doc_url,
     content |-> doc_content, length |-> 0]

\* Posting(uint32_t id)
Posting(id) == [doc_id |-> id, frequency |-> 1, positions |-> <<>>]

\* Posting()
DefaultPosting == [doc_id |-> 0, frequency |-> 0, positions |-> <<>>]

add_position(posting, position) ==
    LET ps == Append(posting.positions, position)
    IN  [doc_id |-> posting.doc_id, frequency |-> Len(ps), positions |-> ps]

RECURSIVE add_positions(_,_,_)
add_positions(posting, positions, i) ==
    IF i > Len(positions) THEN posting
    ELSE add_positions(add_position(posting, positions[i]), positions, i + 1)

RECURSIVE total_postings_loop(_,_,_,_)
total_postings_loop(ht, terms, i, total) ==
    IF i > Len(terms) THEN total
    ELSE total_postings_loop(ht, terms, i + 1,
             IF Found(ht, terms[i]) THEN total + Len(ValueAt(ht, terms[i]))
             ELSE total)

RECURSIVE total_doc_length_loop(_,_,_)
total_doc_length_loop(documents, i, total) ==
    IF i > Len(documents) THEN total
    ELSE total_doc_length_loop(documents, i + 1, total + documents[i].length)

RECURSIVE most_frequent_loop(_,_,_,_)
\* acc = [count, term]
most_frequent_loop(ht, terms, i, acc) ==
    IF i > Len(terms) THEN acc
    ELSE LET freq == IF Found(ht, terms[i])
                     THEN Len(ValueAt(ht, terms[i])) ELSE 0
         IN  most_frequent_loop(ht, terms, i + 1,
                 IF Found(ht, terms[i]) /\ freq > acc.count
                 THEN [count |-> freq, term |-> terms[i]] ELSE acc)

\* Averages are kept as exact fractions [num, den] (0/1 for the 0.0 cases).
update_stats(idx) ==
    LET terms == keys(idx.index_)
        tp    == total_postings_loop(idx.index_, terms, 1, 0)
        tdl   == total_doc_length_loop(idx.documents_, 1, 0)
        mf    == most_frequent_loop(idx.index_, terms, 1,
                                    [count |-> 0, term |-> <<>>])
    IN  [idx EXCEPT !.stats_ =
           [total_documents |-> Len(idx.documents_),
            total_terms     |-> idx.index_.size_,
            total_postings  |-> tp,
            avg_document_length |->
                IF idx.documents_ = <<>> THEN [num |-> 0, den |-> 1]
                ELSE [num |-> tdl, den |-> Len(idx.documents_)],
            avg_term_frequency |->
                IF idx.index_.size_ = 0 THEN [num |-> 0, den |-> 1]
                ELSE [num |-> tp, den |-> idx.index_.size_],
            most_frequent_term_count |-> mf.count,
            most_frequent_term       |-> mf.term]]

\* InvertedIndex::InvertedIndex()
NewIndex ==
    update_stats([index_ |-> NewHashTable, documents_ |-> <<>>,
                  url_to_doc_id_ |-> NewHashTable, stats_ |-> <<>>])

get_document_count(idx) == Len(idx.documents_)

\* uint32_t add_document(const Document&).  Result: [idx, id].
add_document(idx, document) ==
    LET existing_id == find(idx.url_to_doc_id_, document.url) IN
    IF existing_id # idx.url_to_doc_id_.capacity_
    THEN [idx |-> idx, id |-> idx.url_to_doc_id_.table_[existing_id].value]
    ELSE LET doc == [document EXCEPT !.id = Len(idx.documents_)]
         IN  [idx |-> [idx EXCEPT
                         !.documents_ = Append(@, doc),
                         !.url_to_doc_id_ = insert(@, doc.url, doc.id).ht],
              id  |-> doc.id]

RECURSIVE collect_positions(_,_,_)
\* The first loop of index_document: term -> positions of its tokens.
collect_positions(token_positions, i, term_positions) ==
    IF i > Len(token_positions) THEN term_positions
    ELSE LET term      == token_positions[i].token
             position  == token_positions[i].position
             positions == find(term_positions, term)
         IN  collect_positions(token_positions, i + 1,
                 IF positions # term_positions.capacity_
                 THEN [term_positions EXCEPT
                          !.table_[positions].value = Append(@, position)]
                 ELSE insert(term_positions, term, <<position>>).ht)

RECURSIVE append_postings(_,_,_,_,_)
\* The second loop of index_document: one posting per key of term_positions.
append_postings(index, term_positions, term_keys, i, doc_id) ==
    IF i > Len(term_keys) THEN index
    ELSE LET term == term_keys[i] IN
         IF ~Found(term_positions, term)
         THEN append_postings(index, term_positions, term_keys, i + 1, doc_id)
         ELSE LET positions == ValueAt(term_positions, term)
                  posting   == add_positions(Posting(doc_id), positions, 1)
                  postings  == find(index, term)
              IN  append_postings(
                      IF postings # index.capacity_
                      THEN [index EXCEPT
                              !.table_[postings].value = Append(@, posting)]
                      ELSE insert(index, term, <<posting>>).ht,
                      term_positions, term_keys, i + 1, doc_id)

\* uint32_t index_document(const Document&).  Result: [idx, id].
index_document(idx, document) ==
    LET added           == add_document(idx, document)
        doc_id          == added.id
        token_positions == tokenize_with_positions(document.content)
        term_positions  == collect_positions(token_positions, 1, NewHashTable)
        term_keys       == keys(term_positions)
        index2          == append_postings(added.idx.index_, term_positions,
                                           term_keys, 1, doc_id)
    IN  [idx |-> update_stats(
                   [added.idx EXCEPT
                      !.index_ = index2,
                      !.documents_[doc_id + 1].length = term_positions.size_]),
         id  |-> doc_id]

\* const Vector<Posting>* find_postings(term): <<>> stands for a list that
\* is absent; HasPostings tells the two apart.
HasPostings(idx, term) == Found(idx.index_, term)

find_postings(idx, term) ==
    IF Found(idx.index_, term) THEN ValueAt(idx.index_, term) ELSE <<>>

get_all_terms(idx) == keys(idx.index_)

\* const Document* get_document_by_url(url): the position in documents_
\* (0-based), or -1 for nullptr.
get_document_by_url(idx, url) ==
    IF Found(idx.url_to_doc_id_, url)
    THEN ValueAt(idx.url_to_doc_id_, url) ELSE -1

\* void clear()
clear(idx) ==
    update_stats([idx EXCEPT !.index_ = hash_clear(@),
                             !.documents_ = <<>>,
                             !.url_to_doc_id_ = hash_clear(@)])

\* bool validate() of InvertedIndex
index_validate(idx) ==
    /\ \A i \in 1 .. Len(idx.documents_) :
          /\ idx.documents_[i].id = i - 1
          /\ Found(idx.url_to_doc_id_, idx.documents_[i].url)
          /\ ValueAt(idx.url_to_doc_id_, idx.documents_[i].url)
                 = idx.documents_[i].id
    /\ LET all_terms == keys(idx.index_) IN
       \A t \in 1 .. Len(all_terms) :
          Found(idx.index_, all_terms[t]) =>
              LET postings == ValueAt(idx.index_, all_terms[t]) IN
              \A k \in 1 .. Len(postings) :
                  /\ postings[k].doc_id < Len(idx.documents_)
                  /\ postings[k].frequency = Len(postings[k].positions)

\* ------------------------------------------------------------------------
\* IndexBuilder
\* ------------------------------------------------------------------------
RECURSIVE sort_inner(_,_,_)
\* for (j = i + 1; j < postings->size(); ++j) of optimize_index; i and j
\* count from 1 here.
sort_inner(postings, i, j) ==
    IF j > Len(postings) THEN postings
    ELSE sort_inner(IF postings[j].doc_id < postings[i].doc_id
                    THEN [postings EXCEPT ![i] = postings[j],
                                          ![j] = postings[i]]
                    ELSE postings,
                    i, j + 1)

RECURSIVE sort_outer(_,_)
\* for (i = 0; i < postings->size(); ++i) of optimize_index
sort_outer(postings, i) ==
    IF i > Len(postings) THEN postings
    ELSE sort_outer(sort_inner(postings, i, i + 1), i + 1)

RECURSIVE optimize_terms(_,_,_)
\* for (const auto& term : terms) of optimize_index
optimize_terms(idx, terms, t) ==
    IF t > Len(terms) THEN idx
    ELSE IF ~Found(idx.index_, terms[t])
    THEN optimize_terms(idx, terms, t + 1)
    ELSE optimize_terms(
             [idx EXCEPT !.index_.table_[find_index(idx.index_, terms[t])]
                              .value = sort_outer(@, 1)],
             terms, t + 1)

\* void optimize_index()
optimize_index(idx) == optimize_terms(idx, get_all_terms(idx), 1)

\* ------------------------------------------------------------------------
\* Binary persistence.  A file is the sequence of its bytes; integers are
\* little-endian.
\* ------------------------------------------------------------------------
\* "BOOLIDX\0"
SIGNATURE == <<66, 79, 79, 76, 73, 68, 88, 0>>

header_version == 1

sizeof_uint32 == 4

sizeof_FileHeader == 40

sizeof_TermOffset == 16

\* The four bytes of a uint32_t
u32(n) ==
    <<n % 256, (n \div 256) % 256, (n \div 65536) % 256,
      (n \div 16777216) % 256>>

\* The eight bytes of a uint64_t below 2^32
u64(n) == u32(n) \o <<0, 0, 0, 0>>

write_document(doc) ==
    u32(doc.id) \o u32(Len(doc.title)) \o doc.title
        \o u32(Len(doc.url)) \o doc.url
        \o u32(Len(doc.content)) \o u32(doc.length)

RECURSIVE write_documents(_,_,_)
write_documents(documents, i, out) ==
    IF i > Len(documents) THEN out
    ELSE write_documents(documents, i + 1, out \o write_document(documents[i]))

RECURSIVE compute_term_offsets(_,_,_,_,_)
\* The loop that fills term_offsets.
compute_term_offsets(idx, terms, i, current_offset, term_offsets) ==
    IF i > Len(terms) THEN term_offsets
    ELSE IF ~HasPostings(idx, terms[i])
    THEN compute_term_offsets(idx, terms, i + 1, current_offset, term_offsets)
    ELSE LET postings == find_postings(idx, terms[i]) IN
         compute_term_offsets(idx, terms, i + 1,
             current_offset + Len(terms[i]) + sizeof_uint32
                 + Len(postings) * (sizeof_uint32 * 2),
             Append(term_offsets,
                    [term_length   |-> Len(terms[i]),
                     posting_count |-> Len(postings),
                     file_offset   |-> current_offset]))

RECURSIVE write_term_offsets(_,_,_)
write_term_offsets(term_offsets, i, out) ==
    IF i > Len(term_offsets) THEN out
    ELSE write_term_offsets(term_offsets, i + 1,
             out \o u32(term_offsets[i].term_length)
                 \o u32(term_offsets[i].posting_count)
                 \o u64(term_offsets[i].file_offset))

RECURSIVE write_postings(_,_,_)
write_postings(postings, i, out) ==
    IF i > Len(postings) THEN out
    ELSE write_postings(postings, i + 1,
             out \o u32(postings[i].doc_id) \o u32(postings[i].frequency))

RECURSIVE write_terms(_,_,_,_)
write_terms(idx, terms, i, out) ==
    IF i > Len(terms) THEN out
    ELSE LET postings == find_postings(idx, terms[i]) IN
         write_terms(idx, terms, i + 1,
             write_postings(postings, 1,
                            out \o terms[i] \o u32(Len(postings))))

\* bool save_to_file(filepath) const: the bytes written.  header.reserved
\* is never assigned; reserved is the 16 bytes it happens to hold.
save_to_file(idx, reserved) ==
    LET header == SIGNATURE \o u32(header_version)
                      \o u32(Len(idx.documents_)) \o u32(idx.index_.size_)
                      \o u32(idx.stats_.total_postings) \o reserved
        terms  == keys(idx.index_)
        current_offset == sizeof_FileHeader
                            + Len(idx.documents_) * (sizeof_uint32 * 4)
                            + Len(terms) * sizeof_TermOffset
        term_offsets == compute_term_offsets(idx, terms, 1, current_offset, <<>>)
    IN  write_terms(idx, terms, 1,
            write_term_offsets(term_offsets, 1,
                write_documents(idx.documents_, 1, header)))

\* The largest number of elements one reserve() or sized constructor obtains
\* from the allocator; a larger request throws std::bad_alloc.
AllocLimit == 64

\* The value of a uint32_t from its bytes.  Values of 2^31 and more are
\* represented by 2^31 - 1; they are only compared with far smaller numbers.
U32(b) ==
    IF b[4] >= 128 THEN 2147483647
    ELSE b[1] + 256 * b[2] + 65536 * b[3] + 16777216 * b[4]

\* The value of a uint64_t from its bytes, represented likewise.
U64(b) ==
    IF b[5] # 0 \/ b[6] # 0 \/ b[7] # 0 \/ b[8] # 0 THEN 2147483647
    ELSE U32(SubSeq(b, 1, 4))

\* n bytes of value-initialized storage
zeros(n) == [i \in 1 .. n |-> 0]

\* n bytes of storage that was never assigned; u is the byte it holds
indeterminate(n, u) == [i \in 1 .. n |-> u]

OpenStream == [pos |-> 0, fail |-> FALSE]

\* file.read(buffer, Len(buffer)): [buffer, stream].  A failed stream reads
\* nothing; a short read stores what is left and sets failbit.
read(bytes, stream, buffer) ==
    IF stream.fail THEN [buffer |-> buffer, stream |-> stream]
    ELSE LET n     == Len(buffer)
             avail == IF Len(bytes) > stream.pos
                      THEN Len(bytes) - stream.pos ELSE 0
             k     == IF n < avail THEN n ELSE avail
         IN  [buffer |-> SubSeq(bytes, stream.pos + 1, stream.pos + k)
                            \o SubSeq(buffer, k + 1, n),
              stream |-> [pos |-> stream.pos + k, fail |-> k < n]]

\* file.seekg(offset): does nothing on a failed stream
seekg(stream, offset) ==
    IF stream.fail THEN stream ELSE [pos |-> offset, fail |-> FALSE]

\* The state of a load in progress: status "ok" while it runs, "bad_alloc"
\* once an allocation has thrown (idx is then what the index was left as).
Loading(status, idx, stream) ==
    [status |-> status, idx |-> idx, stream |-> stream]

RECURSIVE load_documents(_,_,_,_,_)
\* for (i = 0; i < header.doc_count; ++i) of load_from_file
load_documents(bytes, L, i, doc_count, u) ==
    IF i >= doc_count THEN L
    ELSE LET id        == read(bytes, L.stream, zeros(sizeof_uint32))
             title_len == read(bytes, id.stream, indeterminate(sizeof_uint32, u))
         IN
         IF U32(title_len.buffer) > AllocLimit
         THEN Loading("bad_alloc", L.idx, title_len.stream)
         ELSE
         LET title   == read(bytes, title_len.stream, zeros(U32(title_len.buffer)))
             url_len == read(bytes, title.stream, indeterminate(sizeof_uint32, u))
         IN
         IF U32(url_len.buffer) > AllocLimit
         THEN Loading("bad_alloc", L.idx, url_len.stream)
         ELSE
         LET url         == read(bytes, url_len.stream, zeros(U32(url_len.buffer)))
             content_len == read(bytes, url.stream,
                                 indeterminate(sizeof_uint32, u))
             length      == read(bytes, content_len.stream, zeros(sizeof_uint32))
             doc == [id |-> U32(id.buffer), title |-> title.buffer,
                     url |-> url.buffer, content |-> <<>>,
                     length |-> U32(length.buffer)]
         IN  load_documents(bytes,
                 Loading("ok",
                     [L.idx EXCEPT
                        !.documents_ = Append(@, doc),
                        !.url_to_doc_id_ = insert(@, doc.url, doc.id).ht],
                     length.stream),
                 i + 1, doc_count, u)

RECURSIVE load_term_offsets(_,_,_,_,_)
\* [term_offsets, stream]; the vector was value-initialized
load_term_offsets(bytes, stream, i, term_count, term_offsets) ==
    IF i >= term_count THEN [term_offsets |-> term_offsets, stream |-> stream]
    ELSE LET r == read(bytes, stream, zeros(sizeof_TermOffset)) IN
         load_term_offsets(bytes, r.stream, i + 1, term_count,
             Append(term_offsets,
                    [term_length   |-> U32(SubSeq(r.buffer, 1, 4)),
                     posting_count |-> U32(SubSeq(r.buffer, 5, 8)),
                     file_offset   |-> U64(SubSeq(r.buffer, 9, 16))]))

RECURSIVE load_postings(_,_,_,_,_)
\* for (i = 0; i < posting_count; ++i): [status, postings, stream]
load_postings(bytes, stream, i, posting_count, postings) ==
    IF i >= posting_count
    THEN [status |-> "ok", postings |-> postings, stream |-> stream]
    ELSE LET doc_id    == read(bytes, stream, zeros(sizeof_uint32))
             frequency == read(bytes, doc_id.stream, zeros(sizeof_uint32))
         IN  IF U32(frequency.buffer) > AllocLimit
             THEN [status |-> "bad_alloc", postings |-> postings,
                   stream |-> frequency.stream]
             ELSE load_postings(bytes, frequency.stream, i + 1, posting_count,
                      Append(postings,
                             [doc_id    |-> U32(doc_id.buffer),
                              frequency |-> U32(frequency.buffer),
                              positions |-> zeros(U32(frequency.buffer))]))

RECURSIVE load_terms(_,_,_,_,_)
\* for (const auto& offset : term_offsets) of load_from_file
load_terms(bytes, L, term_offsets, k, u) ==
    IF k > Len(term_offsets) THEN L
    ELSE LET offset == term_offsets[k] IN
         IF offset.term_length > AllocLimit
         THEN Loading("bad_alloc", L.idx, L.stream)
         ELSE
         LET term == read(bytes, seekg(L.stream, offset.file_offset),
                          zeros(offset.term_length))
             posting_count == read(bytes, term.stream,
                                   indeterminate(sizeof_uint32, u))
         IN
         IF U32(posting_count.buffer) > AllocLimit
         THEN Loading("bad_alloc", L.idx, posting_count.stream)
         ELSE
         LET loaded == load_postings(bytes, posting_count.stream, 0,
                                     U32(posting_count.buffer), <<>>)
         IN  IF loaded.status # "ok"
             THEN Loading("bad_alloc", L.idx, loaded.stream)
             ELSE load_terms(bytes,
                      Loading("ok",
                          [L.idx EXCEPT
                             !.index_ = insert(@, term.buffer,
                                               loaded.postings).ht],
                          loaded.stream),
                      term_offsets, k + 1, u)

\* bool load_from_file(filepath): [status, idx] with status "true", "false"
\* or "bad_alloc" (the exception leaves the function).  bytes = <<>> stands
\* for a file that cannot be opened; u is the byte that storage the function
\* reads before assigning it happens to hold.
load_from_file(idx, bytes, u) ==
    IF bytes = <<>> THEN [status |-> "false", idx |-> idx]
    ELSE
    LET header == read(bytes, OpenStream, indeterminate(sizeof_FileHeader, u))
    IN
    IF SubSeq(header.buffer, 1, 8) # SIGNATURE
    THEN [status |-> "false", idx |-> idx]
    ELSE
    LET doc_count  == U32(SubSeq(header.buffer, 13, 16))
        term_count == U32(SubSeq(header.buffer, 17, 20))
        cleared    == clear(idx)
    IN
    IF doc_count > AllocLimit THEN [status |-> "bad_alloc", idx |-> cleared]
    ELSE
    LET docs == load_documents(bytes, Loading("ok", cleared, header.stream),
                               0, doc_count, u)
    IN
    IF docs.status # "ok" \/ term_count > AllocLimit
    THEN [status |-> "bad_alloc", idx |-> docs.idx]
    ELSE
    LET offsets == load_term_offsets(bytes, docs.stream, 0, term_count, <<>>)
        terms   == load_terms(bytes, Loading("ok", docs.idx, offsets.stream),
                              offsets.term_offsets, 1, u)
    IN  IF terms.status # "ok"
        THEN [status |-> "bad_alloc", idx |-> terms.idx]
        ELSE [status |-> "true", idx |-> update_stats(terms.idx)]

\* ------------------------------------------------------------------------
\* BitVector: size_ bits packed in capacity_ words; a word is the set of
\* the bit indices (0 .. BITS_PER_WORD - 1) that are 1.
\* ------------------------------------------------------------------------
BITS_PER_WORD == 64

words_for_bits(bits) == (bits + BITS_PER_WORD - 1) \div BITS_PER_WORD

\* BitVector()
EmptyBitVector == [size_ |-> 0, capacity_ |-> 0, data_ |-> <<>>]

\* BitVector(size)
BitVector(size) ==
    [size_ |-> size, capacity_ |-> words_for_bits(size),
     data_ |-> [i \in 1 .. words_for_bits(size) |-> {}]]

\* (1 << extra_bits) - 1
low_mask(extra_bits) == 0 .. extra_bits - 1

\* __builtin_ctzll on a word that is not 0
ctz(word) == CHOOSE b \in word : \A c \in word : b <= c

\* void set(index, value), for index < size_
set(bv, index, value) ==
    LET word_index == index \div BITS_PER_WORD
        bit_index  == index % BITS_PER_WORD
    IN  [bv EXCEPT !.data_[word_index + 1] =
            IF value THEN @ \cup {bit_index} ELSE @ \ {bit_index}]

\* The word-wise complement of flip_all, before the last word is corrected.
flip_words(bv) ==
    [bv EXCEPT !.data_ =
        [i \in 1 .. bv.capacity_ |-> (0 .. BITS_PER_WORD - 1) \ bv.data_[i]]]

\* flip_all without the correction of the last word
flip_all_uncorrected(bv) == flip_words(bv)

\* void flip_all()
flip_all(bv) ==
    LET flipped    == flip_words(bv)
        extra_bits == bv.size_ % BITS_PER_WORD
    IN  IF extra_bits > 0
        THEN [flipped EXCEPT !.data_[bv.capacity_] = @ \cap low_mask(extra_bits)]
        ELSE flipped

min_capacity(a, b) == IF a.capacity_ < b.capacity_ THEN a.capacity_ ELSE b.capacity_

\* operator&= that keeps the bits of either operand
and_assign_keeping(bv, other) ==
    [bv EXCEPT !.data_ =
        [i \in 1 .. bv.capacity_ |->
            IF i <= min_capacity(bv, other)
            THEN bv.data_[i] \cup other.data_[i] ELSE {}]]

\* operator&= for operands of equal size_
and_assign(bv, other) ==
    [bv EXCEPT !.data_ =
        [i \in 1 .. bv.capacity_ |->
            IF i <= min_capacity(bv, other)
            THEN bv.data_[i] \cap other.data_[i] ELSE {}]]

\* operator|= for operands of equal size_
or_assign(bv, other) ==
    [bv EXCEPT !.data_ =
        [i \in 1 .. bv.capacity_ |->
            IF i <= min_capacity(bv, other)
            THEN bv.data_[i] \cup other.data_[i] ELSE bv.data_[i]]]

RECURSIVE count_loop(_,_,_)
count_loop(bv, i, result) ==
    IF i > bv.capacity_ THEN result
    ELSE count_loop(bv, i + 1, result + Cardinality(bv.data_[i]))

\* size_t count() const
count(bv) == count_loop(bv, 1, 0)

RECURSIVE first_from(_,_)
\* The scan over whole words shared by find_first and find_next
\* (i is the 0-based word index).
first_from(bv, i) ==
    IF i >= bv.capacity_ THEN bv.size_
    ELSE IF bv.data_[i + 1] # {}
    THEN i * BITS_PER_WORD + ctz(bv.data_[i + 1])
    ELSE first_from(bv, i + 1)

\* size_t find_first() const
find_first(bv) == first_from(bv, 0)

\* ~0 << bit_index : the bits of a word the first test of find_next keeps
shifted_mask(bit_index) == bit_index .. BITS_PER_WORD - 1

\* size_t find_next(pos) const
find_next(bv, pos) ==
    IF pos >= bv.size_ THEN bv.size_
    ELSE LET word_index == pos \div BITS_PER_WORD
             bit_index  == pos % BITS_PER_WORD
             word       == bv.data_[word_index + 1] \cap shifted_mask(bit_index)
         IN  IF word # {} THEN word_index * BITS_PER_WORD + ctz(word)
             ELSE first_from(bv, word_index + 1)

\* The documents whose bit is 1.
DocSet(bv) ==
    UNION { { (i - 1) * BITS_PER_WORD + b : b \in bv.data_[i] }
            : i \in 1 .. bv.capacity_ }

\* ------------------------------------------------------------------------
\* Query AST
\* ------------------------------------------------------------------------
TermNode(term) == [type |-> "TERM", term |-> term]

PhraseNode(terms) == [type |-> "PHRASE", terms |-> terms]

ProximityNode(terms, distance) ==
    [type |-> "PROXIMITY", terms |-> terms, distance |-> distance]

BinaryOpNode(type, left, right) ==
    [type |-> type, left |-> left, right |-> right]

UnaryOpNode(operand) == [type |-> "NOT", operand |-> operand]

RECURSIVE join_terms(_,_,_)
\* The loop shared by PhraseNode::to_string and ProximityNode::to_string.
join_terms(terms, i, result) ==
    IF i > Len(terms) THEN result
    ELSE join_terms(terms, i + 1,
             (IF i > 1 THEN result \o SP ELSE result) \o terms[i])

RECURSIVE decimal(_)
\* std::to_string(size_t)
decimal(n) ==
    IF n < 10 THEN <<48 + n>> ELSE Append(decimal(n \div 10), 48 + (n % 10))

RECURSIVE to_string(_)
to_string(node) ==
    CASE node.type = "TERM"   -> node.term
      [] node.type = "PHRASE" -> join_terms(node.terms, 1, <<34>>) \o <<34>>
      [] node.type = "PROXIMITY" ->
            join_terms(node.terms, 1, <<34>>) \o <<34, 32, 47, 32>>
                \o decimal(node.distance)
      [] node.type = "AND" ->
            <<40>> \o to_string(node.left) \o <<32, 38, 38, 32>>
                \o to_string(node.right) \o <<41>>
      [] node.type = "OR" ->
            <<40>> \o to_string(node.left) \o <<32, 124, 124, 32>>
                \o to_string(node.right) \o <<41>>
      [] node.type = "NOT" -> <<33>> \o to_string(node.operand)

\* ------------------------------------------------------------------------
\* QueryEvaluator.  An evaluation yields [status, bv]; status is "ok" when
\* the call returns bv, "hang" when one of its loops never ends, and
\* "invalid_argument" when a bit-vector operator throws on a size mismatch.
\* ------------------------------------------------------------------------
Ok(bv) == [status |-> "ok", bv |-> bv]

Hang == [status |-> "hang", bv |-> EmptyBitVector]

InvalidArgument == [status |-> "invalid_argument", bv |-> EmptyBitVector]

RECURSIVE set_postings(_,_,_)
set_postings(result, postings, i) ==
    IF i > Len(postings) THEN result
    ELSE set_postings(
             IF postings[i].doc_id < result.size_
             THEN set(result, postings[i].doc_id, TRUE) ELSE result,
             postings, i + 1)

\* BitVector evaluate_term(const TermNode*), given the node's term
evaluate_term(idx, term) ==
    IF ~HasPostings(idx, term) THEN BitVector(get_document_count(idx))
    ELSE set_postings(BitVector(get_document_count(idx)),
                      find_postings(idx, term), 1)

RECURSIVE first_posting_positions(_,_,_)
first_posting_positions(postings, i, doc_id) ==
    IF i > Len(postings) THEN <<>>
    ELSE IF postings[i].doc_id = doc_id THEN postings[i].positions
    ELSE first_posting_positions(postings, i + 1, doc_id)

\* Vector<uint32_t> get_term_positions(term, doc_id)
get_term_positions(idx, term, doc_id) ==
    IF ~HasPostings(idx, term) THEN <<>>
    ELSE first_posting_positions(find_postings(idx, term), 1, doc_id)

RECURSIVE has_position(_,_,_)
has_position(term_positions, j, wanted) ==
    IF j > Len(term_positions) THEN FALSE
    ELSE IF term_positions[j] = wanted THEN TRUE
    ELSE has_position(term_positions, j + 1, wanted)

RECURSIVE phrase_found(_,_,_,_,_)
\* The inner loop of check_phrase_positions; terms[i + 1] is the C++ terms[i].
phrase_found(idx, doc_id, terms, pos, i) ==
    IF i >= Len(terms) THEN TRUE
    ELSE IF ~has_position(get_term_positions(idx, terms[i + 1], doc_id),
                          1, pos + i)
    THEN FALSE
    ELSE phrase_found(idx, doc_id, terms, pos, i + 1)

RECURSIVE phrase_scan(_,_,_,_,_)
phrase_scan(idx, doc_id, terms, first_positions, f) ==
    IF f > Len(first_positions) THEN FALSE
    ELSE IF phrase_found(idx, doc_id, terms, first_positions[f], 1) THEN TRUE
    ELSE phrase_scan(idx, doc_id, terms, first_positions, f + 1)

\* bool check_phrase_positions(doc_id, terms)
check_phrase_positions(idx, doc_id, terms) ==
    IF terms = <<>> THEN FALSE
    ELSE LET scan(first_positions) ==
                 IF first_positions = <<>> THEN FALSE
                 ELSE phrase_scan(idx, doc_id, terms, first_positions, 1)
         IN  scan(get_term_positions(idx, terms[1], doc_id))

RECURSIVE collect_all_positions(_,_,_,_,_)
\* The first loop of check_proximity_positions: [ok, all_positions];
\* ok is FALSE when the loop returned false on an empty list.
collect_all_positions(idx, doc_id, terms, i, all_positions) ==
    IF i > Len(terms) THEN [ok |-> TRUE, all_positions |-> all_positions]
    ELSE LET push_back(positions) ==
                 IF positions = <<>>
                 THEN [ok |-> FALSE, all_positions |-> <<>>]
                 ELSE collect_all_positions(idx, doc_id, terms, i + 1,
                                            Append(all_positions, positions))
         IN  push_back(get_term_positions(idx, terms[i], doc_id))

\* The window test without its lower end
is_close_unordered(pos, first_pos, max_distance) ==
    pos <= first_pos + max_distance

\* The window test on one position of a later term.
is_close(pos, first_pos, max_distance) ==
    pos >= first_pos /\ pos <= first_pos + max_distance

RECURSIVE has_close_position(_,_,_,_)
has_close_position(positions, j, first_pos, max_distance) ==
    IF j > Len(positions) THEN FALSE
    ELSE IF is_close(positions[j], first_pos, max_distance) THEN TRUE
    ELSE has_close_position(positions, j + 1, first_pos, max_distance)

RECURSIVE found_sequence(_,_,_,_)
\* all_positions[i + 1] is the C++ all_positions[i].
found_sequence(all_positions, i, first_pos, max_distance) ==
    IF i >= Len(all_positions) THEN TRUE
    ELSE IF ~has_close_position(all_positions[i + 1], 1, first_pos, max_distance)
    THEN FALSE
    ELSE found_sequence(all_positions, i + 1, first_pos, max_distance)

RECURSIVE proximity_scan(_,_,_)
proximity_scan(all_positions, f, max_distance) ==
    IF f > Len(all_positions[1]) THEN FALSE
    ELSE IF found_sequence(all_positions, 1, all_positions[1][f], max_distance)
    THEN TRUE
    ELSE proximity_scan(all_positions, f + 1, max_distance)

\* bool check_proximity_positions(doc_id, terms, max_distance)
check_proximity_positions(idx, doc_id, terms, max_distance) ==
    IF terms = <<>> THEN FALSE
    ELSE LET scan(got) ==
                 IF ~got.ok THEN FALSE
                 ELSE proximity_scan(got.all_positions, 1, max_distance)
         IN  scan(collect_all_positions(idx, doc_id, terms, 1, <<>>))

\* The positional test the filter loop applies to one document.
positional_check(idx, doc_id, node) ==
    IF node.type = "PHRASE"
    THEN check_phrase_positions(idx, doc_id, node.terms)
    ELSE check_proximity_positions(idx, doc_id, node.terms, node.distance)

RECURSIVE filter_loop(_,_,_,_)
\* for (doc_id = result.find_first(); doc_id < result.size();
\*      doc_id = result.find_next(doc_id)) of evaluate_phrase and
\* evaluate_proximity.  An iteration that changes neither result nor doc_id
\* repeats for ever.
filter_loop(idx, node, result, doc_id) ==
    IF doc_id >= result.size_ THEN Ok(result)
    ELSE LET advance(result2, next) ==
                 IF next = doc_id /\ result2 = result THEN Hang
                 ELSE filter_loop(idx, node, result2, next)
             body(result2) == advance(result2, find_next(result2, doc_id))
         IN  body(IF ~positional_check(idx, doc_id, node)
                  THEN set(result, doc_id, FALSE) ELSE result)

\* BitVector evaluate_phrase(const PhraseNode*)
evaluate_phrase(idx, node) ==
    IF node.terms = <<>> THEN Ok(BitVector(get_document_count(idx)))
    ELSE LET filter(result) ==
                 filter_loop(idx, node, result, find_first(result))
         IN  filter(evaluate_term(idx, node.terms[1]))

\* BitVector evaluate_proximity(const ProximityNode*)
evaluate_proximity(idx, node) ==
    IF node.terms = <<>> THEN Ok(BitVector(get_document_count(idx)))
    ELSE LET filter(result) ==
                 filter_loop(idx, node, result, find_first(result))
         IN  filter(evaluate_term(idx, node.terms[1]))

\* left &= right of evaluate_and, on the operands' outcomes
and_results(left, right) ==
    IF left.status # "ok" THEN left
    ELSE IF right.status # "ok" THEN right
    ELSE IF left.bv.size_ # right.bv.size_ THEN InvalidArgument
    ELSE Ok(and_assign(left.bv, right.bv))

\* left |= right of evaluate_or, on the operands' outcomes
or_results(left, right) ==
    IF left.status # "ok" THEN left
    ELSE IF right.status # "ok" THEN right
    ELSE IF left.bv.size_ # right.bv.size_ THEN InvalidArgument
    ELSE Ok(or_assign(left.bv, right.bv))

RECURSIVE clear_tail(_,_,_)
\* for (i = doc_count; i < operand.size(); ++i) operand.set(i, false)
clear_tail(operand, i, size) ==
    IF i >= size THEN operand
    ELSE clear_tail(set(operand, i, FALSE), i + 1, size)

\* The body of evaluate_not, on the operand's outcome
not_result(idx, operand) ==
    IF operand.status # "ok" THEN operand
    ELSE Ok(clear_tail(flip_all(operand.bv), get_document_count(idx),
                       operand.bv.size_))

RECURSIVE evaluate(_,_)
\* BitVector evaluate(QueryNode*)
evaluate(idx, query) ==
    CASE query.type = "TERM"      -> Ok(evaluate_term(idx, query.term))
      [] query.type = "PHRASE"    -> evaluate_phrase(idx, query)
      [] query.type = "PROXIMITY" -> evaluate_proximity(idx, query)
      [] query.type = "AND" ->
            and_results(evaluate(idx, query.left), evaluate(idx, query.right))
      [] query.type = "OR" ->
            or_results(evaluate(idx, query.left), evaluate(idx, query.right))
      [] query.type = "NOT" -> not_result(idx, evaluate(idx, query.operand))

\* DocumentResult(id) with the score and matches evaluate_detailed assigns
DocumentResult(id) == [doc_id |-> id, score |-> 1, matches |-> 1]

\* DocumentResult::operator<
result_less(a, b) ==
    IF a.score # b.score THEN a.score > b.score ELSE a.doc_id < b.doc_id

RECURSIVE sort_insert(_,_)
sort_insert(sorted, r) ==
    IF sorted = <<>> THEN <<r>>
    ELSE IF result_less(r, sorted[1]) THEN <<r>> \o sorted
    ELSE <<sorted[1]>> \o sort_insert(Tail(sorted), r)

RECURSIVE sort_results(_,_,_)
\* std::sort(results.begin(), results.end())
sort_results(results, i, sorted) ==
    IF i > Len(results) THEN sorted
    ELSE sort_results(results, i + 1, sort_insert(sorted, results[i]))

RECURSIVE detailed_loop(_,_,_)
\* The conversion loop of evaluate_detailed.  bit_results never changes in
\* it, so once find_next returns its argument every further iteration
\* appends the same record again, until push_back cannot allocate.
detailed_loop(bit_results, doc_id, results) ==
    IF doc_id >= bit_results.size_
    THEN [status |-> "ok", results |-> results]
    ELSE LET advance(next) ==
                 IF next = doc_id
                 THEN [status |-> "bad_alloc", results |-> <<>>]
                 ELSE detailed_loop(bit_results, next,
                                    Append(results, DocumentResult(doc_id)))
         IN  advance(find_next(bit_results, doc_id))

\* Vector<DocumentResult> evaluate_detailed(QueryNode*): [status, results]
evaluate_detailed(idx, query) ==
    LET sorted(listed) ==
            IF listed.status # "ok" THEN listed
            ELSE [status |-> "ok",
                  results |-> sort_results(listed.results, 1, <<>>)]
        convert(bit_results) ==
            IF bit_results.status # "ok"
            THEN [status |-> bit_results.status, results |-> <<>>]
            ELSE sorted(detailed_loop(bit_results.bv,
                                      find_first(bit_results.bv), <<>>))
    IN  convert(evaluate(idx, query))

\* size_t count_results(QueryNode*): [status, count]
count_results(idx, query) ==
    LET counted(results) ==
            IF results.status # "ok"
            THEN [status |-> results.status, count |-> 0]
            ELSE [status |-> "ok", count |-> count(results.bv)]
    IN  counted(evaluate(idx, query))

\* Vector<DocumentResult> get_top_results(QueryNode*, n): [status, results]
get_top_results(idx, query, n) ==
    LET top(all_results) ==
            IF all_results.status # "ok" THEN all_results
            ELSE IF n >= Len(all_results.results) THEN all_results
            ELSE [status |-> "ok",
                  results |-> SubSeq(all_results.results, 1, n)]
    IN  top(evaluate_detailed(idx, query))

\* ------------------------------------------------------------------------
\* QueryParser::optimize.  A node of the tree is named by its path from the
\* root (1 = left child or operand, 2 = right child).
\* ------------------------------------------------------------------------
RECURSIVE delete_node(_,_)
\* delete node: the nodes freed, in order (a destructor deletes the
\* children before the node's own storage is released).
delete_node(node, path) ==
    IF node.type \in {"AND", "OR"}
    THEN delete_node(node.left, Append(path, 1))
             \o delete_node(node.right, Append(path, 2)) \o <<path>>
    ELSE IF node.type = "NOT"
    THEN delete_node(node.operand, Append(path, 1)) \o <<path>>
    ELSE <<path>>

RECURSIVE optimize_at(_,_)
\* optimize(root) for the node at path.  Result:
\*   status "ok": the call returned node (root itself; nothing was freed);
\*   status "double_free": `delete right; delete bin_node;` ran at an AND/OR
\*   node whose operands print alike: freed lists the nodes released by
\*   `delete right` and by the left half of ~BinaryOpNode, deleted_again is
\*   the right operand that ~BinaryOpNode then deletes a second time, and
\*   node is the left operand, whose storage is among freed.
optimize_at(root, path) ==
    IF root.type \notin {"AND", "OR"}
    THEN [status |-> "ok", node |-> root, freed |-> <<>>]
    ELSE LET merge(left, right) ==
                 IF right.status # "ok" THEN right
                 ELSE IF to_string(left.node) = to_string(right.node)
                 THEN [status |-> "double_free",
                       node   |-> left.node,
                       freed  |-> delete_node(root.right, Append(path, 2))
                                  \o delete_node(root.left, Append(path, 1)),
                       deleted_again |-> Append(path, 2)]
                 ELSE [status |-> "ok", node |-> root, freed |-> <<>>]
             descend(left) ==
                 IF left.status # "ok" THEN left
                 ELSE merge(left, optimize_at(root.right, Append(path, 2)))
         IN  descend(optimize_at(root.left, Append(path, 1)))

\* QueryNode* optimize(QueryNode* root)
optimize(root) == optimize_at(root, <<>>)

Crash == [status |-> "crash", bv |-> EmptyBitVector]

\* What evaluating the pointer returned by optimize can produce once the
\* double delete has happened: the behaviour is undefined, so the process
\* may die or the evaluation may return any bit-vector over the documents.
UndefinedOutcomes(idx) ==
    {Crash} \cup
    { Ok([size_ |-> get_document_count(idx),
          capacity_ |-> words_for_bits(get_document_count(idx)),
          data_ |-> [i \in 1 .. words_for_bits(get_document_count(idx)) |-> S]])
      : S \in SUBSET (0 .. get_document_count(idx) - 1) }

\* The outcomes of evaluate(optimize(root)).
optimize_then_evaluate(idx, root) ==
    LET outcomes(optimized) ==
            IF optimized.status = "ok" THEN {evaluate(idx, optimized.node)}
            ELSE UndefinedOutcomes(idx)
    IN  outcomes(optimize(root))

\* ------------------------------------------------------------------------
\* QueryParser
\* ------------------------------------------------------------------------
\* std::isalnum in the "C" locale
isalnum(c) ==
    isdigit(c) \/ (c >= 65 /\ c <= 90) \/ (c >= 97 /\ c <= 122)

\* The bytes a term token is made of
is_term_char(c) ==
    isalnum(c) \/ c = 45 \/ c = 95 \/ c = 39 \/ c >= 128

\* String::to_lower: only 'A'..'Z' change (the tests on Cyrillic letters
\* compare a char with a multi-character constant and never succeed).
to_lower(str) ==
    [i \in 1 .. Len(str) |->
        IF str[i] >= 65 /\ str[i] <= 90 THEN str[i] + 32 ELSE str[i]]

RECURSIVE find_char(_,_,_)
\* String::find(char, pos): the 0-based place of delimiter, Len(str) for npos
find_char(str, delimiter, pos) ==
    IF pos >= Len(str) THEN Len(str)
    ELSE IF str[pos + 1] = delimiter THEN pos
    ELSE find_char(str, delimiter, pos + 1)

RECURSIVE split_loop(_,_,_,_)
split_loop(str, delimiter, start, result) ==
    LET cut(end) ==
            IF end >= Len(str)
            THEN Append(result, SubSeq(str, start + 1, Len(str)))
            ELSE split_loop(str, delimiter, end + 1,
                            Append(result, SubSeq(str, start + 1, end)))
    IN  cut(find_char(str, delimiter, start))

\* Vector<String> String::split(char): empty parts are kept
split(str, delimiter) == split_loop(str, delimiter, 0, <<>>)

RECURSIVE stoul(_)
\* std::stoul on a string of decimal digits (the queries offered here have
\* at most two, so the out_of_range case does not arise)
stoul(str) ==
    IF str = <<>> THEN 0
    ELSE 10 * stoul(SubSeq(str, 1, Len(str) - 1)) + (str[Len(str)] - 48)

QueryToken(type, value, position) ==
    [type |-> type, value |-> value, position |-> position]

\* error(message, position): the runtime_error that parse catches
ParseError(message, position) ==
    [status |-> "error", message |-> message, position |-> position]

RECURSIVE skip_comment(_,_)
skip_comment(query, i) ==
    IF i < Len(query) /\ query[i + 1] # 10 THEN skip_comment(query, i + 1)
    ELSE i

RECURSIVE skip_spaces(_,_)
skip_spaces(query, i) ==
    IF i < Len(query) /\ isspace(query[i + 1]) THEN skip_spaces(query, i + 1)
    ELSE i

RECURSIVE skip_digits(_,_)
skip_digits(query, i) ==
    IF i < Len(query) /\ isdigit(query[i + 1]) THEN skip_digits(query, i + 1)
    ELSE i

RECURSIVE skip_term(_,_)
skip_term(query, i) ==
    IF i < Len(query) /\ is_term_char(query[i + 1]) THEN skip_term(query, i + 1)
    ELSE i

RECURSIVE tokenize_loop(_,_,_)
\* The while loop of tokenize; i is the 0-based index into query.
tokenize_loop(query, i, tokens) ==
    IF i >= Len(query)
    THEN [status |-> "ok",
          tokens |-> Append(tokens, QueryToken("END", <<>>, Len(query)))]
    ELSE LET
        c == query[i + 1]
        quoted(close) ==
            IF close >= Len(query) THEN ParseError("Unclosed quote", close)
            ELSE LET with_phrase ==
                         tokens \o
                         << QueryToken("QUOTE", <<>>, i),
                            QueryToken("TERM", SubSeq(query, i + 2, close),
                                       close),
                            QueryToken("QUOTE", <<>>, close) >>
                     slash(k) ==
                         IF k < Len(query) /\ query[k + 1] = 47
                         THEN LET digits(end) ==
                                      IF end > k + 1
                                      THEN tokenize_loop(query, end,
                                               Append(with_phrase,
                                                   QueryToken("PROXIMITY",
                                                       SubSeq(query, k + 2, end),
                                                       end)))
                                      ELSE ParseError(
                                               "Invalid proximity operator", end)
                              IN  digits(skip_digits(query, k + 1))
                         ELSE tokenize_loop(query, k, with_phrase)
                 IN  slash(skip_spaces(query, close + 1))
        term(end) ==
            tokenize_loop(query, end,
                Append(tokens,
                       QueryToken("TERM", to_lower(SubSeq(query, i + 1, end)),
                                  end)))
      IN
        IF isspace(c) THEN tokenize_loop(query, i + 1, tokens)
        ELSE IF c = 35
        THEN tokenize_loop(query, skip_comment(query, i), tokens)
        ELSE IF c = 38 /\ i + 1 < Len(query) /\ query[i + 2] = 38
        THEN tokenize_loop(query, i + 2,
                           Append(tokens, QueryToken("AND", <<>>, i)))
        ELSE IF c = 124 /\ i + 1 < Len(query) /\ query[i + 2] = 124
        THEN tokenize_loop(query, i + 2,
                           Append(tokens, QueryToken("OR", <<>>, i)))
        ELSE IF c = 33
        THEN tokenize_loop(query, i + 1,
                           Append(tokens, QueryToken("NOT", <<>>, i)))
        ELSE IF c = 40
        THEN tokenize_loop(query, i + 1,
                           Append(tokens, QueryToken("LPAREN", <<>>, i)))
        ELSE IF c = 41
        THEN tokenize_loop(query, i + 1,
                           Append(tokens, QueryToken("RPAREN", <<>>, i)))
        ELSE IF c = 34 THEN quoted(find_char(query, 34, i + 1))
        ELSE IF isalnum(c) \/ c >= 128 THEN term(skip_term(query, i))
        ELSE ParseError("Unknown character in query", i)

\* Vector<QueryToken> tokenize(query)
query_tokenize(query) == tokenize_loop(query, 0, <<>>)

\* bool check(type, pos, tokens)
check(type, pos, tokens) ==
    IF pos >= Len(tokens) THEN FALSE ELSE tokens[pos + 1].type = type

\* bool match(type, pos, tokens)
match(type, pos, tokens) == check(type, pos, tokens)

\* A node together with the token position the parser has reached
Parsed(node, pos) == [status |-> "ok", node |-> node, pos |-> pos]

RECURSIVE parse_expression(_,_)
RECURSIVE parse_expression_loop(_,_)
RECURSIVE parse_term(_,_)
RECURSIVE parse_term_loop(_,_)
RECURSIVE parse_factor(_,_)
RECURSIVE parse_primary(_,_)

\* The while loop of parse_expression, left being what was parsed so far
parse_expression_loop(tokens, left) ==
    IF left.status # "ok" THEN left
    ELSE IF match("OR", left.pos, tokens)
    THEN LET join(right) ==
                 IF right.status # "ok" THEN right
                 ELSE parse_expression_loop(tokens,
                          Parsed(BinaryOpNode("OR", left.node, right.node),
                                 right.pos))
         IN  join(parse_term(tokens, left.pos + 1))
    ELSE left

\* QueryNode* parse_expression(pos, tokens)
parse_expression(tokens, pos) ==
    parse_expression_loop(tokens, parse_term(tokens, pos))

\* parse_term's loop made right-associative: the right operand is a whole
\* parse_term
parse_term_loop_right(tokens, left) ==
    IF left.status # "ok" THEN left
    ELSE IF match("AND", left.pos, tokens)
            \/ (~match("RPAREN", left.pos, tokens)
                /\ ~match("OR", left.pos, tokens)
                /\ ~match("END", left.pos, tokens))
    THEN LET join(right) ==
                 IF right.status # "ok" THEN right
                 ELSE Parsed(BinaryOpNode("AND", left.node, right.node),
                             right.pos)
         IN  join(parse_term(tokens,
                  IF match("AND", left.pos, tokens)
                  THEN left.pos + 1 ELSE left.pos))
    ELSE left

\* The while loop of parse_term: an explicit && or an implied one
parse_term_loop(tokens, left) ==
    IF left.status # "ok" THEN left
    ELSE IF match("AND", left.pos, tokens)
            \/ (~match("RPAREN", left.pos, tokens)
                /\ ~match("OR", left.pos, tokens)
                /\ ~match("END", left.pos, tokens))
    THEN LET join(right) ==
                 IF right.status # "ok" THEN right
                 ELSE parse_term_loop(tokens,
                          Parsed(BinaryOpNode("AND", left.node, right.node),
                                 right.pos))
         IN  join(parse_factor(tokens,
                  IF match("AND", left.pos, tokens)
                  THEN left.pos + 1 ELSE left.pos))
    ELSE left

\* QueryNode* parse_term(pos, tokens)
parse_term(tokens, pos) ==
    parse_term_loop(tokens, parse_factor(tokens, pos))

\* QueryNode* parse_factor(pos, tokens)
parse_factor(tokens, pos) ==
    IF match("NOT", pos, tokens)
    THEN LET negate(operand) ==
                 IF operand.status # "ok" THEN operand
                 ELSE Parsed(UnaryOpNode(operand.node), operand.pos)
         IN  negate(parse_factor(tokens, pos + 1))
    ELSE parse_primary(tokens, pos)

\* QueryNode* parse_primary(pos, tokens)
parse_primary(tokens, pos) ==
    IF match("LPAREN", pos, tokens)
    THEN LET close(expr) ==
                 IF expr.status # "ok" THEN expr
                 ELSE IF ~match("RPAREN", expr.pos, tokens)
                 THEN ParseError("Expected ')'", tokens[expr.pos + 1].position)
                 ELSE Parsed(expr.node, expr.pos + 1)
         IN  close(parse_expression(tokens, pos + 1))
    ELSE IF match("QUOTE", pos, tokens)
    THEN IF ~match("TERM", pos + 1, tokens)
         THEN ParseError("Expected phrase content", tokens[pos + 2].position)
         ELSE IF ~match("QUOTE", pos + 2, tokens)
         THEN ParseError("Expected closing quote", tokens[pos + 3].position)
         ELSE IF match("PROXIMITY", pos + 3, tokens)
         THEN Parsed(ProximityNode(split(tokens[pos + 2].value, 32),
                                   stoul(tokens[pos + 4].value)),
                     pos + 4)
         ELSE Parsed(PhraseNode(split(tokens[pos + 2].value, 32)), pos + 3)
    ELSE IF match("TERM", pos, tokens)
    THEN Parsed(TermNode(tokens[pos + 1].value), pos + 1)
    ELSE ParseError("Expected term, phrase, or '('", tokens[pos + 1].position)

\* parse returned nullptr
NullAST == [status |-> "null"]

\* QueryNode* parse(query).  The result is NullAST, or what optimize made
\* of the parsed tree: status "ok" with the tree, or status "double_free".
parse(query) ==
    LET finish(parsed, tokens) ==
            IF parsed.status # "ok" THEN NullAST
            ELSE IF ~match("END", parsed.pos, tokens) THEN NullAST
            ELSE optimize(parsed.node)
        run(lexed) ==
            IF lexed.status # "ok" THEN NullAST
            ELSE IF Len(lexed.tokens) = 1 /\ lexed.tokens[1].type = "END"
            THEN NullAST
            ELSE finish(parse_expression(lexed.tokens, 0), lexed.tokens)
    IN  run(query_tokenize(query))

\* ------------------------------------------------------------------------
\* BooleanSearch
\* ------------------------------------------------------------------------
\* SearchStats(), without the times
NewSearchStats ==
    [total_queries |-> 0, successful_queries |-> 0, failed_queries |-> 0]

\* void SearchStats::add_query(success, time_ms)
add_query(stats, success) ==
    [total_queries      |-> stats.total_queries + 1,
     successful_queries |-> stats.successful_queries
                                + (IF success THEN 1 ELSE 0),
     failed_queries     |-> stats.failed_queries
                                + (IF success THEN 0 ELSE 1)]

\* SearchResult, without query and time_ms
SearchResult(doc_ids, total_found, syntax_valid, error_message) ==
    [doc_ids |-> doc_ids, total_found |-> total_found,
     syntax_valid |-> syntax_valid, error_message |-> error_message]

\* search returned result, having called stats_.add_query(success, ...)
Returned(result, success) ==
    [status |-> "ok", result |-> result, success |-> success]

\* The catch block of search
Caught(what) == Returned(SearchResult(<<>>, 0, FALSE, what), FALSE)

\* The part of search after get_top_results and count_results returned
\* top and counted.
fill_result(top, counted) ==
    IF top.status = "hang" \/ top.status = "crash"
    THEN [status |-> top.status]
    ELSE IF top.status # "ok" THEN Caught(top.status)
    ELSE IF counted.status = "hang" \/ counted.status = "crash"
    THEN [status |-> counted.status]
    ELSE IF counted.status # "ok" THEN Caught(counted.status)
    ELSE Returned(SearchResult(
                      [i \in 1 .. Len(top.results) |-> top.results[i].doc_id],
                      counted.count, TRUE, ""),
                  TRUE)

\* What search can do once optimize has deleted a node twice and handed
\* back a freed one: the process may die, or the evaluator may read any
\* result out of the freed node.
undefined_search(idx, limit) ==
    { [status |-> "crash"] } \cup
    { fill_result(
          LET all == sort_results(
                         [i \in 1 .. Cardinality(S) |-> DocumentResult(
                              CHOOSE d \in S :
                                  Cardinality({e \in S : e < d}) = i - 1)],
                         1, <<>>)
          IN  [status |-> "ok",
               results |-> IF limit >= Len(all) THEN all
                           ELSE SubSeq(all, 1, limit)],
          [status |-> "ok", count |-> Cardinality(S)])
      : S \in SUBSET (0 .. get_document_count(idx) - 1) }

\* SearchResult search(query, limit): the set of its outcomes
search(idx, query, limit) ==
    LET run(ast) ==
            IF ast.status = "null"
            THEN { Returned(SearchResult(<<>>, 0, FALSE,
                                         "Failed to parse query"), FALSE) }
            ELSE IF ast.status # "ok" THEN undefined_search(idx, limit)
            ELSE { fill_result(get_top_results(idx, ast.node, limit),
                               count_results(idx, ast.node)) }
    IN  run(parse(query))

\* bool validate(query): the set of its outcomes.  `delete root` after a
\* double delete in optimize is undefined.
validate(query) ==
    LET run(root) ==
            IF root.status = "null" THEN { [status |-> "ok", value |-> FALSE] }
            ELSE IF root.status = "ok"
            THEN { [status |-> "ok", value |-> TRUE] }
            ELSE { [status |-> "crash"],
                   [status |-> "ok", value |-> TRUE],
                   [status |-> "ok", value |-> FALSE] }
    IN  run(parse(query))

\* bool validate_query(query)
validate_query(query) == validate(query)

\* ------------------------------------------------------------------------
\* Inputs
\* ------------------------------------------------------------------------
\* Number of index operations in a behaviour of Spec
MaxOps == 4
\* Number of add_document / index_document calls in a behaviour of SpecUrl
MaxAdds == 6
\* Number of index_document calls in a behaviour of SpecEval
MaxDocs == 3

\* Documents offered to the index in Spec; two of them share a url.
Docs ==
    { Document(w_T, w_u0, JoinWords(<<w_red, w_car, w_fast>>)),
      Document(w_T, w_u1, JoinWords(<<w_blue, w_car, w_slow>>)),
      Document(w_T, w_u0, JoinWords(<<w_blue, w_car>>)) }

\* Documents without content, told apart by their urls only.
UrlDocs ==
    { Document(<<>>, url, <<>>) : url \in {w_u0, w_u1, w_u4, w_u9, w_t1} }

\* The corpus of the end-to-end scenarios 1 to 4, in the order of its ids.
ScenarioCorpus ==
    << Document(w_T, w_u0, JoinWords(<<w_red, w_car, w_fast>>)),
       Document(w_T, w_u1, JoinWords(<<w_blue, w_car, w_slow>>)),
       Document(w_T, w_u2, JoinWords(<<w_red, w_motorbike, w_fast>>)) >>

\* The corpus of the phrase test.
Corpus ==
    { Document(w_T, w_m0,
          JoinWords(<<w_moscow, w_aviation, w_institute, w_founded, w_1930>>)),
      Document(w_T, w_m1,
          JoinWords(<<w_aviation, w_institute, w_in, w_moscow, w_is,
                      w_called, w_mai>>)),
      Document(w_T, w_m2,
          JoinWords(<<w_moscow, w_institute, w_aviation, w_technical>>)) }

QueryTerms == {w_moscow, w_founded, w_technical, w_zz}

PhraseTerms ==
    { <<w_moscow, w_aviation, w_institute>>, <<w_aviation, w_institute>>,
      <<w_moscow>>, <<w_institute, w_zz>>, <<>> }

ProximityTerms ==
    { <<w_moscow, w_institute>>, <<w_institute, w_moscow>>,
      <<w_aviation, w_institute, w_moscow>>, <<w_moscow, w_zz>>,
      <<w_founded>>, <<>> }

Distances == {0, 1, 9, 20}

Limits == {0, 1, 2, 10}

Leaves ==
    { TermNode(t) : t \in QueryTerms }
    \cup { PhraseNode(ts) : ts \in PhraseTerms }
    \cup { ProximityNode(ts, d) : ts \in ProximityTerms \ {<<>>},
                                  d \in {1, 20} }

Operands ==
    { TermNode(t) : t \in QueryTerms }
    \cup { UnaryOpNode(TermNode(t)) : t \in QueryTerms }
    \cup { PhraseNode(<<w_moscow, w_aviation, w_institute>>),
           PhraseNode(<<w_moscow>>),
           ProximityNode(<<w_moscow, w_institute>>, 1) }

\* Queries of depth up to two, and AND/OR chains over terms.
SmallASTs ==
    Leaves \cup { UnaryOpNode(l) : l \in Leaves }
    \cup { UnaryOpNode(UnaryOpNode(TermNode(t))) : t \in QueryTerms }

ChainTerms == {w_founded, w_zz}

\* (a op2 b) op1 c over terms
Chains ==
    { BinaryOpNode(op1, BinaryOpNode(op2, TermNode(a), TermNode(b)),
                   TermNode(c)) :
        op1 \in {"AND", "OR"}, op2 \in {"AND", "OR"},
        a \in ChainTerms, b \in ChainTerms, c \in ChainTerms }

QueryASTs ==
    SmallASTs \cup Chains
    \cup { BinaryOpNode(op, a, b) : op \in {"AND", "OR"},
                                    a \in Operands, b \in Operands }

\* Queries handed to optimize
OptimizeASTs ==
    SmallASTs \cup Chains
    \cup { BinaryOpNode(op, TermNode(a), TermNode(b)) :
             op \in {"AND", "OR"}, a \in ChainTerms, b \in ChainTerms }

\* Query strings, as bytes
q_founded == <<102, 111, 117, 110, 100, 101, 100>>
    \* founded
q_Founded == <<70, 111, 117, 110, 100, 101, 100>>
    \* Founded
q_zz == <<122, 122>>
    \* zz
q_not_founded == <<33, 102, 111, 117, 110, 100, 101, 100>>
    \* !founded
q_not_not_founded == <<33, 33, 102, 111, 117, 110, 100, 101, 100>>
    \* !!founded
q_not_not_or == <<33, 33, 40, 102, 111, 117, 110, 100, 101, 100, 32, 124, 124, 32, 122, 122, 41>>
    \* !!(founded || zz)
q_or_and == <<102, 111, 117, 110, 100, 101, 100, 32, 124, 124, 32, 116, 101, 99, 104, 110, 105, 99, 97, 108, 32, 38, 38, 32, 122, 122>>
    \* founded || technical && zz
q_not_and == <<33, 102, 111, 117, 110, 100, 101, 100, 32, 38, 38, 32, 116, 101, 99, 104, 110, 105, 99, 97, 108>>
    \* !founded && technical
q_and_and == <<102, 111, 117, 110, 100, 101, 100, 32, 38, 38, 32, 116, 101, 99, 104, 110, 105, 99, 97, 108, 32, 38, 38, 32, 122, 122>>
    \* founded && technical && zz
q_paren_and == <<40, 102, 111, 117, 110, 100, 101, 100, 32, 124, 124, 32, 116, 101, 99, 104, 110, 105, 99, 97, 108, 41, 32, 38, 38, 32, 122, 122>>
    \* (founded || technical) && zz
q_paren_not == <<40, 102, 111, 117, 110, 100, 101, 100, 32, 124, 124, 32, 116, 101, 99, 104, 110, 105, 99, 97, 108, 41, 32, 38, 38, 32, 33, 122, 122>>
    \* (founded || technical) && !zz
q_and == <<102, 111, 117, 110, 100, 101, 100, 32, 38, 38, 32, 116, 101, 99, 104, 110, 105, 99, 97, 108>>
    \* founded && technical
q_same == <<122, 122, 32, 38, 38, 32, 122, 122>>
    \* zz && zz
q_ph_founded == <<34, 102, 111, 117, 110, 100, 101, 100, 34>>
    \* "founded"
q_ph_Founded == <<34, 70, 111, 117, 110, 100, 101, 100, 34>>
    \* "Founded"
q_ph_zz == <<34, 122, 122, 34>>
    \* "zz"
q_phrase == <<34, 109, 111, 115, 99, 111, 119, 32, 97, 118, 105, 97, 116, 105, 111, 110, 32, 105, 110, 115, 116, 105, 116, 117, 116, 101, 34>>
    \* "moscow aviation institute"
q_near == <<34, 109, 111, 115, 99, 111, 119, 32, 105, 110, 115, 116, 105, 116, 117, 116, 101, 34, 32, 47, 32, 51>>
    \* "moscow institute" / 3
q_near_tight == <<34, 109, 111, 115, 99, 111, 119, 32, 105, 110, 115, 116, 105, 116, 117, 116, 101, 34, 32, 47, 51>>
    \* "moscow institute" /3
q_empty == <<>>
    \* the empty query
q_spaces == <<32, 32>>
    \* 2 spaces
q_comment == <<35, 32, 97, 108, 108>>
    \* # all
q_lead_op == <<38, 38, 32, 102, 111, 117, 110, 100, 101, 100>>
    \* && founded
q_trail_op == <<102, 111, 117, 110, 100, 101, 100, 32, 38, 38>>
    \* founded &&
q_parens == <<40, 41>>
    \* ()
q_unclosed == <<34, 102, 111, 117, 110, 100, 101, 100>>
    \* "founded
q_bang == <<122, 122, 32, 102, 111, 117, 110, 100, 101, 100, 33>>
    \* zz founded!
q_stray == <<41, 102, 111, 117, 110, 100, 101, 100>>
    \* )founded
q_char == <<102, 111, 117, 110, 100, 101, 100, 32, 64>>
    \* founded @

\* Terms of the precedence queries
ParserTerms == {w_founded, w_technical, w_zz}

\* a || b && c
q_or_and_of(a, b, c) == a \o <<32, 124, 124, 32>> \o b \o <<32, 38, 38, 32>> \o c
\* !a && b
q_not_and_of(a, b) == <<33>> \o a \o <<32, 38, 38, 32>> \o b
\* a && b && c
q_and_and_of(a, b, c) == a \o <<32, 38, 38, 32>> \o b \o <<32, 38, 38, 32>> \o c
\* (a || b) && c
q_paren_and_of(a, b, c) ==
    <<40>> \o a \o <<32, 124, 124, 32>> \o b \o <<41, 32, 38, 38, 32>> \o c

\* "red && car", "red || blue", "car && !red", "(red || blue) && fast"
q_scenario1 == w_red \o <<32, 38, 38, 32>> \o w_car
q_scenario2 == w_red \o <<32, 124, 124, 32>> \o w_blue
q_scenario3 == w_car \o <<32, 38, 38, 32, 33>> \o w_red
q_scenario4 == q_paren_and_of(w_red, w_blue, w_fast)

ScenarioQueries == { q_scenario1, q_scenario2, q_scenario3, q_scenario4 }

\* The four shapes over distinct terms
PrecedenceQueries ==
    UNION { { q_or_and_of(a, b, c), q_not_and_of(a, b), q_and_and_of(a, b, c),
              q_paren_and_of(a, b, c) } :
            <<a, b, c>> \in
                { t \in ParserTerms \X ParserTerms \X ParserTerms :
                      t[1] # t[2] /\ t[1] # t[3] /\ t[2] # t[3] } }

\* Queries the compiler accepts
WellFormed ==
    { q_founded, q_Founded, q_zz, q_not_founded, q_not_not_founded,
      q_not_not_or, q_or_and, q_not_and, q_and_and, q_paren_and,
      q_paren_not, q_and, q_same, q_ph_founded, q_ph_Founded, q_ph_zz,
      q_phrase, q_near_tight }

\* Queries that hold no token
EmptyQueries == { q_empty, q_spaces, q_comment }

\* Queries with a syntax error
Malformed ==
    { q_lead_op, q_trail_op, q_parens, q_unclosed, q_bang, q_stray, q_char }

\* q_near is the proximity query as the query language writes it, with a
\* space after the slash.
Queries == WellFormed \cup EmptyQueries \cup Malformed \cup {q_near}

\* Documents offered to the index in SpecLoad.  The title and url of the
\* first take as many bytes, with their two length fields and the id, as the
\* record of a three-letter term with one posting.
LoadDocs ==
    { Document(w_T, w_http, JoinWords(<<w_car, w_car, w_bus, w_bus>>)),
      Document(w_T, w_u1, JoinWords(<<w_blue, w_car>>)) }

\* Phrase and proximity queries put to the loaded index
LoadedQueries ==
    { PhraseNode(<<w_car>>), PhraseNode(<<w_car, w_bus>>),
      PhraseNode(<<w_zz>>), ProximityNode(<<w_car, w_car>>, 3),
      ProximityNode(<<w_car, w_bus>>, 1) }

\* n bytes of the letter a
Letters(n) == [i \in 1 .. n |-> 97]

\* Words the texts of SpecTokenize are made of: a word, a single letter, a
\* stop-word, a capitalised word between punctuation, and runs of letters
\* of max_token_length_, one more and two more bytes.
TextWords ==
    { w_red, <<97>>, <<208, 184>>, <<40, 67, 97, 114, 41>>,
      Letters(max_token_length_), Letters(max_token_length_ + 1),
      Letters(max_token_length_ + 2) }

\* Largest number of words in a text
MaxWords == 3

\* Texts given to the tokenizer
Texts ==
    { JoinWords(ws) :
          ws \in UNION { [1 .. n -> TextWords] : n \in 0 .. MaxWords } }

\* Trees whose evaluation runs the loops over find_first / find_next: terms
\* and one-word phrases that match documents and that match none, and
\* proximity nodes whose words are close and not close.
LoopASTs ==
    { TermNode(w_moscow), TermNode(w_zz),
      PhraseNode(<<w_moscow>>), PhraseNode(<<w_zz>>),
      PhraseNode(<<w_moscow, w_aviation>>),
      ProximityNode(<<w_moscow, w_institute>>, 20),
      ProximityNode(<<w_moscow, w_institute>>, 1) }

\* The queries of search that parse to such trees
LoopQueries == { q_founded, q_zz, q_ph_founded, q_ph_zz, q_near_tight }

\* Number of insert and erase calls in a behaviour of SpecTable
MaxTableOps == 5

\* Keys of the hash table: u0 and t1 hash to the same slot of a table of
\* DEFAULT_CAPACITY slots, and u1, u4, u9 to the slots probed after it.
TableKeys == {w_u0, w_u1, w_u4, w_u9, w_t1}

TableValues == {0, 1}

\* Size of the largest bit vector searched in SpecBits: more than one word.
MaxBits == 66

RECURSIVE set_bits(_,_)
\* bv after set(i, true) for every i of S
set_bits(bv, S) ==
    IF S = {} THEN bv
    ELSE LET i == CHOOSE x \in S : TRUE
         IN  set_bits(set(bv, i, TRUE), S \ {i})

\* Bit vectors of no, one and two words with bits set at the ends of the
\* words and next to each other.
BitVectors ==
    { set_bits(BitVector(size), S) :
        <<size, S>> \in
            UNION { {size} \X SUBSET ({0, 1, 2, 63, 64, MaxBits - 1}
                                          \cap (0 .. size - 1)) :
                    size \in {0, 3, MaxBits} } }

\* Number of searches in a behaviour of SpecSearch
MaxSearches == 2

SearchLimits == {1, 10}

\* ------------------------------------------------------------------------
\* State
\* ------------------------------------------------------------------------
VARIABLES
    index,  \* the InvertedIndex the documents are added to
    ld,     \* a second InvertedIndex, the target of load_from_file
    file,   \* the bytes of the index file, <<>> while there is none
    saved,  \* history: index, and hist.pure, as they were when file was written
    call,   \* the last call: its name, arguments and outcome
    hist,   \* history: nops counts the calls that built index; pure tells
            \* that index was built by index_document calls alone
    stats_, \* the SearchStats of the BooleanSearch that owns index
    hash_table,   \* a HashTable<String, uint32_t> of its own
    abstract_map  \* history: the map the calls on hash_table describe

vars == <<index, ld, file, saved, call, hist, stats_, hash_table,
          abstract_map>>

NoCall == [op |-> "none"]

QueryOps ==
    {"evaluate", "evaluate_detailed", "get_top_results", "count_results",
     "optimize", "check_proximity_positions",
     "parse", "validate_query", "search", "evaluate_loaded"}

\* A query has been issued and its outcome not yet taken by the caller.
Pending == call.op \in QueryOps

Init ==
    /\ index = NewIndex
    /\ ld = NewIndex
    /\ file = <<>>
    /\ saved = [idx |-> NewIndex, pure |-> TRUE]
    /\ call = NoCall
    /\ hist = [nops |-> 0, pure |-> TRUE]
    /\ stats_ = NewSearchStats
    /\ hash_table = NewHashTable
    /\ abstract_map = [key \in {} |-> 0]

\* ------------------------------------------------------------------------
\* Index operations
\* ------------------------------------------------------------------------
AddDocument(document, limit) ==
    /\ ~Pending
    /\ hist.nops < limit
    /\ LET r == add_document(index, document) IN
        /\ index' = r.idx
        /\ call' = [op |-> "add_document", document |-> document,
                    ret |-> r.id, pre |-> index]
    /\ hist' = [nops |-> hist.nops + 1, pure |-> FALSE]
    /\ UNCHANGED <<hash_table, abstract_map, ld, file, saved, stats_>>

IndexDocument(document, limit) ==
    /\ ~Pending
    /\ hist.nops < limit
    /\ LET r == index_document(index, document) IN
        /\ index' = r.idx
        /\ call' = [op |-> "index_document", document |-> document,
                    ret |-> r.id, pre |-> index]
    /\ hist' = [hist EXCEPT !.nops = @ + 1]
    /\ UNCHANGED <<hash_table, abstract_map, ld, file, saved, stats_>>

Clear(limit) ==
    /\ ~Pending
    /\ hist.nops < limit
    /\ index' = clear(index)
    /\ call' = [op |-> "clear", pre |-> index]
    /\ hist' = [nops |-> hist.nops + 1, pure |-> TRUE]
    /\ UNCHANGED <<hash_table, abstract_map, ld, file, saved, stats_>>

\* IndexBuilder::optimize_index() on the builder that owns index
OptimizeIndex(limit) ==
    /\ ~Pending
    /\ hist.nops < limit
    /\ index' = optimize_index(index)
    /\ call' = [op |-> "optimize_index", pre |-> index]
    /\ hist' = [hist EXCEPT !.nops = @ + 1]
    /\ UNCHANGED <<hash_table, abstract_map, ld, file, saved, stats_>>

\* validate() on index
Validate ==
    /\ ~Pending
    /\ call' = [op |-> "validate", ret |-> index_validate(index)]
    /\ UNCHANGED <<hash_table, abstract_map, index, ld, file, saved, hist, stats_>>

\* Values of a byte of storage that is read without having been assigned.
IndeterminateBytes == {0, 255}

SaveToFile(limit) ==
    /\ ~Pending
    /\ hist.nops < limit
    /\ \E r \in IndeterminateBytes :
          file' = save_to_file(index, indeterminate(sizeof_uint32 * 4, r))
    /\ saved' = [idx |-> index, pure |-> hist.pure]
    /\ call' = [op |-> "save_to_file", ret |-> TRUE]
    /\ hist' = [hist EXCEPT !.nops = @ + 1]
    /\ UNCHANGED <<hash_table, abstract_map, index, ld, stats_>>

LoadFromFile(limit) ==
    /\ ~Pending
    /\ hist.nops < limit
    /\ \E u \in IndeterminateBytes :
          LET r == load_from_file(ld, file, u) IN
            /\ ld' = r.idx
            /\ call' = [op |-> "load_from_file", status |-> r.status,
                        fresh |-> (ld = NewIndex), pre |-> ld]
    /\ hist' = [hist EXCEPT !.nops = @ + 1]
    /\ UNCHANGED <<hash_table, abstract_map, index, file, saved, stats_>>

\* hash_table.insert(key, value); the map gets key -> value.
Insert(key, value, limit) ==
    /\ hist.nops < limit
    /\ LET r == insert(hash_table, key, value) IN
        /\ hash_table' = r.ht
        /\ call' = [op |-> "insert", key |-> key, value |-> value,
                    ret |-> r.ok]
    /\ abstract_map' = [k \in DOMAIN abstract_map \cup {key} |->
                           IF k = key THEN value ELSE abstract_map[k]]
    /\ hist' = [hist EXCEPT !.nops = @ + 1]
    /\ UNCHANGED <<index, ld, file, saved, stats_>>

\* hash_table.erase(key); the map loses key.
Erase(key, limit) ==
    /\ hist.nops < limit
    /\ LET r == erase(hash_table, key) IN
        /\ hash_table' = r.ht
        /\ call' = [op |-> "erase", key |-> key, ret |-> r.ok]
    /\ abstract_map' = [k \in DOMAIN abstract_map \ {key} |-> abstract_map[k]]
    /\ hist' = [hist EXCEPT !.nops = @ + 1]
    /\ UNCHANGED <<index, ld, file, saved, stats_>>

\* bv.find_first()
FindFirst(bv) ==
    /\ call = NoCall
    /\ call' = [op |-> "find_first", bv |-> bv, ret |-> find_first(bv)]
    /\ UNCHANGED <<hash_table, abstract_map, index, ld, file, saved, hist, stats_>>

\* bv.find_next(pos)
FindNext(bv, pos) ==
    /\ call = NoCall
    /\ call' = [op |-> "find_next", bv |-> bv, pos |-> pos,
                ret |-> find_next(bv, pos)]
    /\ UNCHANGED <<hash_table, abstract_map, index, ld, file, saved, hist, stats_>>

\* tokenize(text) on a tokenizer as its constructor leaves it
Tokenize(text) ==
    /\ call = NoCall
    /\ call' = [op |-> "tokenize", text |-> text, tokens |-> tokenize(text)]
    /\ UNCHANGED <<hash_table, abstract_map, index, ld, file, saved, hist, stats_>>

\* tokenize_with_positions(text) on the same tokenizer
TokenizeWithPositions(text) ==
    /\ call = NoCall
    /\ call' = [op |-> "tokenize_with_positions", text |-> text,
                tokens |-> tokenize_with_positions(text)]
    /\ UNCHANGED <<hash_table, abstract_map, index, ld, file, saved, hist, stats_>>

\* What can become of a file between its writing and its reading: a byte
\* of the signature or the version field differs, or the file is cut short.
Damaged(bytes) ==
    { [bytes EXCEPT ![1] = 88], [bytes EXCEPT ![9] = 2] }
        \cup { SubSeq(bytes, 1, n) :
                   n \in { m \in {12, sizeof_FileHeader, Len(bytes) - 1} :
                               m < Len(bytes) } }

\* The file that save_to_file wrote is damaged on disk.
DamageFile ==
    /\ call.op \in {"save_to_file", "load_from_file"}
    /\ file # <<>>
    /\ \E bytes \in Damaged(file) : file' = bytes
    /\ call' = [op |-> "damage"]
    /\ UNCHANGED <<hash_table, abstract_map, index, ld, saved, hist, stats_>>

\* ------------------------------------------------------------------------
\* Queries
\* ------------------------------------------------------------------------
\* evaluate(ast) by an evaluator on the index that load_from_file has just
\* filled and returned true for.
EvaluateLoaded(ast) ==
    /\ call.op = "load_from_file"
    /\ call.status = "true"
    /\ call' = [op |-> "evaluate_loaded", ast |-> ast,
                out |-> evaluate(ld, ast)]
    /\ UNCHANGED <<hash_table, abstract_map, index, ld, file, saved, hist, stats_>>

Evaluate(ast) ==
    /\ ~Pending
    /\ call' = [op |-> "evaluate", ast |-> ast, out |-> evaluate(index, ast)]
    /\ UNCHANGED <<hash_table, abstract_map, index, ld, file, saved, hist, stats_>>

EvaluateDetailed(ast) ==
    /\ ~Pending
    /\ call' = [op |-> "evaluate_detailed", ast |-> ast,
                out |-> evaluate_detailed(index, ast)]
    /\ UNCHANGED <<hash_table, abstract_map, index, ld, file, saved, hist, stats_>>

GetTopResults(ast, n) ==
    /\ ~Pending
    /\ call' = [op |-> "get_top_results", ast |-> ast, n |-> n,
                out |-> get_top_results(index, ast, n)]
    /\ UNCHANGED <<hash_table, abstract_map, index, ld, file, saved, hist, stats_>>

CountResults(ast) ==
    /\ ~Pending
    /\ call' = [op |-> "count_results", ast |-> ast,
                out |-> count_results(index, ast)]
    /\ UNCHANGED <<hash_table, abstract_map, index, ld, file, saved, hist, stats_>>

\* optimize(ast), and evaluate on the pointer it returns
Optimize(ast) ==
    /\ ~Pending
    /\ \E out \in optimize_then_evaluate(index, ast) :
          call' = [op |-> "optimize", ast |-> ast, out |-> out]
    /\ UNCHANGED <<hash_table, abstract_map, index, ld, file, saved, hist, stats_>>

CheckProximityPositions(doc_id, terms, max_distance) ==
    /\ ~Pending
    /\ call' = [op |-> "check_proximity_positions", doc_id |-> doc_id,
                terms |-> terms, max_distance |-> max_distance,
                out |-> [status |-> "ok",
                         value |-> check_proximity_positions(
                                       index, doc_id, terms, max_distance)]]
    /\ UNCHANGED <<hash_table, abstract_map, index, ld, file, saved, hist, stats_>>

\* parse(query); the caller deletes what it is given
Parse(query) ==
    /\ ~Pending
    /\ call' = [op |-> "parse", query |-> query,
                out |-> [status |-> "ok", ast |-> parse(query)]]
    /\ UNCHANGED <<hash_table, abstract_map, index, ld, file, saved, hist, stats_>>

ValidateQuery(query) ==
    /\ ~Pending
    /\ \E out \in validate_query(query) :
          call' = [op |-> "validate_query", query |-> query, out |-> out]
    /\ UNCHANGED <<hash_table, abstract_map, index, ld, file, saved, hist, stats_>>

\* search(query, limit) on the engine that owns index.  A search that does
\* not return leaves stats_ as it was.
Search(query, limit, max) ==
    /\ ~Pending
    /\ stats_.total_queries < max
    /\ \E out \in search(index, query, limit) :
          /\ call' = [op |-> "search", query |-> query, limit |-> limit,
                      out |-> out, pre |-> stats_]
          /\ stats_' = IF out.status = "ok"
                       THEN add_query(stats_, out.success) ELSE stats_
    /\ UNCHANGED <<hash_table, abstract_map, index, ld, file, saved, hist>>

\* The caller takes the outcome of a query that returned.
\* The caller takes the value a tokenizer or bit vector call returned.
TakeValue ==
    /\ call.op \in {"tokenize", "tokenize_with_positions",
                    "find_first", "find_next"}
    /\ call' = NoCall
    /\ UNCHANGED <<hash_table, abstract_map, index, ld, file, saved, hist, stats_>>

TakeResult ==
    /\ Pending
    /\ call.out.status = "ok"
    /\ call' = NoCall
    /\ UNCHANGED <<hash_table, abstract_map, index, ld, file, saved, hist, stats_>>

\* ------------------------------------------------------------------------
\* Specifications
\* ------------------------------------------------------------------------
\* Building an index, saving it and loading it into the second index.
Next ==
    \/ \E d \in Docs : AddDocument(d, MaxOps)
    \/ \E d \in Docs : IndexDocument(d, MaxOps)
    \/ Clear(MaxOps)
    \/ SaveToFile(MaxOps)
    \/ LoadFromFile(MaxOps)

Spec == Init /\ [][Next]_vars

\* Building an index from documents whose urls collide in url_to_doc_id_.
NextUrl ==
    \/ \E d \in UrlDocs : AddDocument(d, MaxAdds)
    \/ \E d \in UrlDocs : IndexDocument(d, MaxAdds)

SpecUrl == Init /\ [][NextUrl]_vars

\* Building the corpus and querying it.
NextEval ==
    \/ \E d \in Corpus : IndexDocument(d, MaxDocs)
    \/ \E ast \in QueryASTs : Evaluate(ast)
    \/ \E ast \in SmallASTs : EvaluateDetailed(ast)
    \/ \E ast \in SmallASTs, n \in Limits : GetTopResults(ast, n)
    \/ \E ast \in SmallASTs : CountResults(ast)
    \/ \E ast \in OptimizeASTs : Optimize(ast)
    \/ \E doc_id \in 0 .. MaxDocs, terms \in ProximityTerms, d \in Distances :
          CheckProximityPositions(doc_id, terms, d)
    \/ TakeResult

SpecEval == Init /\ [][NextEval]_vars

\* A BooleanSearch engine over the corpus: the index is built first, then
\* queries are compiled, validated and searched.
NextSearch ==
    \/ \E d \in Corpus :
          stats_.total_queries = 0 /\ call.op \notin QueryOps
              /\ IndexDocument(d, MaxDocs)
    \/ \E q \in Queries \cup PrecedenceQueries : Parse(q)
    \/ \E q \in Queries : ValidateQuery(q)
    \/ \E q \in Queries, limit \in SearchLimits :
          Search(q, limit, MaxSearches)
    \/ TakeResult

SpecSearch == Init /\ [][NextSearch]_vars

\* Building an index, saving it, loading it and querying the loaded index.
NextLoad ==
    \/ \E d \in LoadDocs : IndexDocument(d, MaxOps)
    \/ Clear(MaxOps)
    \/ SaveToFile(MaxOps)
    \/ LoadFromFile(MaxOps)
    \/ \E ast \in LoadedQueries : EvaluateLoaded(ast)
    \/ TakeResult

SpecLoad == Init /\ [][NextLoad]_vars

\* Saving an index and loading the file, intact or damaged.
NextFile ==
    \/ \E d \in LoadDocs : IndexDocument(d, MaxOps)
    \/ SaveToFile(MaxOps)
    \/ DamageFile
    \/ LoadFromFile(MaxOps)

SpecFile == Init /\ [][NextFile]_vars

\* Tokenizing texts.
NextTokenize ==
    \/ \E text \in Texts : Tokenize(text)
    \/ \E text \in Texts : TokenizeWithPositions(text)
    \/ TakeValue

SpecTokenize == Init /\ [][NextTokenize]_vars

\* Queries on an index of up to MaxDocs documents.  A call that returned is
\* taken by its caller at some time (weak fairness of TakeResult); a call
\* whose loop never reaches size() returns nothing to take.
NextTerminate ==
    \/ \E d \in Corpus :
          stats_.total_queries = 0 /\ call.op \notin QueryOps
              /\ IndexDocument(d, MaxDocs)
    \/ \E ast \in LoopASTs : Evaluate(ast)
    \/ \E ast \in LoopASTs : EvaluateDetailed(ast)
    \/ \E ast \in LoopASTs : CountResults(ast)
    \/ \E q \in LoopQueries, limit \in SearchLimits :
          Search(q, limit, MaxSearches)
    \/ TakeResult

SpecTerminate == Init /\ [][NextTerminate]_vars /\ WF_vars(TakeResult)

\* insert and erase calls on a hash table whose keys collide.
NextTable ==
    \/ \E key \in TableKeys, value \in TableValues :
          Insert(key, value, MaxTableOps)
    \/ \E key \in TableKeys : Erase(key, MaxTableOps)

SpecTable == Init /\ [][NextTable]_vars

\* Searching bit vectors for their set bits, from every position up to one
\* past the size.
NextBits ==
    \/ \E bv \in BitVectors : FindFirst(bv)
    \/ \E bv \in BitVectors, pos \in 0 .. MaxBits + 1 :
          pos <= bv.size_ + 1 /\ FindNext(bv, pos)
    \/ TakeValue

SpecBits == Init /\ [][NextBits]_vars

\* The end-to-end scenarios 1 to 4: the three documents are indexed in any
\* order, then the queries are searched and their trees evaluated.
NextScenario ==
    \/ \E k \in 1 .. Len(ScenarioCorpus) :
          stats_.total_queries = 0 /\ call.op \notin QueryOps
              /\ IndexDocument(ScenarioCorpus[k], MaxDocs)
    \/ \E q \in ScenarioQueries, limit \in SearchLimits :
          Search(q, limit, MaxSearches)
    \/ \E q \in ScenarioQueries : Evaluate(parse(q).node)
    \/ TakeResult

SpecScenario == Init /\ [][NextScenario]_vars

\* Building an index and running the optimization pass of the builder.
NextOptimize ==
    \/ \E d \in Docs : IndexDocument(d, MaxOps)
    \/ OptimizeIndex(MaxOps)

SpecOptimize == Init /\ [][NextOptimize]_vars

\* Building an index from documents whose urls collide, and validating it.
NextValidate ==
    \/ \E d \in UrlDocs : AddDocument(d, MaxAdds)
    \/ \E d \in UrlDocs : IndexDocument(d, MaxAdds)
    \/ Validate

SpecValidate == Init /\ [][NextValidate]_vars

\* ------------------------------------------------------------------------
\* Properties
\* ------------------------------------------------------------------------
Range(seq) == { seq[i] : i \in 1 .. Len(seq) }

\* The tokens of a document's content that survive the tokenizer, in order.
TokenStream(doc) ==
    LET tp == tokenize_with_positions(doc.content)
    IN  [i \in 1 .. Len(tp) |-> tp[i].token]

\* The (1-based) places of documents_ that hold url.
UrlPlaces(idx, url) ==
    { i \in 1 .. Len(idx.documents_) : idx.documents_[i].url = url }

AllDocs == 0 .. get_document_count(index) - 1

RECURSIVE Ascending(_)
\* The members of a set of numbers in ascending order.
Ascending(S) ==
    IF S = {} THEN <<>>
    ELSE LET m == CHOOSE x \in S : \A y \in S : x <= y
         IN  <<m>> \o Ascending(S \ {m})

\* C1: when evaluate is called on AND(A, B) or OR(A, B), both operands that
\* return have bit-vectors of length D = document count, the call never
\* ends in a size-mismatch error, and when both operands return the result
\* is the bit-vector of length D whose document set is the intersection
\* (AND) or the union (OR) of the operands' document sets; when an operand
\* does not return, neither does the call.
C1_AndOrAreIntersectionAndUnion ==
    (call.op = "evaluate" /\ call.ast.type \in {"AND", "OR"}) =>
        LET a == evaluate(index, call.ast.left)
            b == evaluate(index, call.ast.right)
        IN  /\ call.out.status # "invalid_argument"
            /\ (a.status = "ok" => a.bv.size_ = get_document_count(index))
            /\ (b.status = "ok" => b.bv.size_ = get_document_count(index))
            /\ (a.status = "ok" /\ b.status = "ok") =>
                  /\ call.out.status = "ok"
                  /\ call.out.bv.size_ = get_document_count(index)
                  /\ DocSet(call.out.bv) =
                        IF call.ast.type = "AND"
                        THEN DocSet(a.bv) \cap DocSet(b.bv)
                        ELSE DocSet(a.bv) \cup DocSet(b.bv)
            /\ (a.status # "ok" \/ b.status # "ok") => call.out.status # "ok"

\* An AND over three documents whose result is not empty and differs from
\* both operands.
C1_Witness ==
    /\ call.op = "evaluate"
    /\ call.ast.type = "AND"
    /\ call.out.status = "ok"
    /\ get_document_count(index) = 3
    /\ DocSet(call.out.bv) # {}
    /\ DocSet(call.out.bv) # DocSet(evaluate(index, call.ast.left).bv)
    /\ DocSet(call.out.bv) # DocSet(evaluate(index, call.ast.right).bv)

\* A term that occurs in the token stream of no document of the index.
AbsentFromCorpus(term) ==
    \A i \in 1 .. Len(index.documents_) :
        term \notin Range(TokenStream(index.documents_[i]))

\* C2: when evaluate is called on NOT(A) and A returns, the result has
\* length D and its document set is {0..D-1} minus the document set of A,
\* so no bit at an index >= D is set and count() <= D; NOT of a term that
\* occurs in no document yields all D documents.
C2_NotIsComplement ==
    (call.op = "evaluate" /\ call.ast.type = "NOT") =>
        LET a == evaluate(index, call.ast.operand) IN
        /\ (a.status = "ok") =>
              /\ call.out.status = "ok"
              /\ call.out.bv.size_ = get_document_count(index)
              /\ DocSet(call.out.bv) = AllDocs \ DocSet(a.bv)
              /\ count(call.out.bv) <= get_document_count(index)
        /\ (a.status # "ok") => call.out.status # "ok"
        /\ (call.ast.operand.type = "TERM"
              /\ AbsentFromCorpus(call.ast.operand.term)) =>
              /\ call.out.status = "ok"
              /\ DocSet(call.out.bv) = AllDocs

\* A NOT over three documents whose result is neither empty nor everything.
C2_Witness ==
    /\ call.op = "evaluate"
    /\ call.ast.type = "NOT"
    /\ call.out.status = "ok"
    /\ get_document_count(index) = 3
    /\ DocSet(call.out.bv) # {}
    /\ DocSet(call.out.bv) # AllDocs

\* The documents whose token stream holds terms as consecutive tokens.
PhraseDocs(terms) ==
    { d \in AllDocs :
        LET stream == TokenStream(index.documents_[d + 1]) IN
        \E s \in 0 .. Len(stream) - Len(terms) :
            \A i \in 1 .. Len(terms) : stream[s + i] = terms[i] }

\* C3: evaluating a phrase t0 .. tk-1 returns exactly the documents whose
\* surviving token stream contains t0 .. tk-1 as k consecutive tokens, and
\* count_results (total_found) is their number; on the three-document
\* corpus the phrase "moscow aviation institute" gives document 0 alone.
C3_PhraseReturnsConsecutiveTokens ==
    /\ (call.op = "evaluate" /\ call.ast.type = "PHRASE"
          /\ call.ast.terms # <<>>) =>
          /\ call.out.status = "ok"
          /\ DocSet(call.out.bv) = PhraseDocs(call.ast.terms)
    /\ (call.op = "count_results" /\ call.ast.type = "PHRASE"
          /\ call.ast.terms # <<>>) =>
          /\ call.out.status = "ok"
          /\ call.out.count = Cardinality(PhraseDocs(call.ast.terms))

\* C4: after index_document has indexed a document under a new url, the
\* posting of each of its terms for the returned id lists the 0-based
\* indices of the term's occurrences in the document's token stream.
C4_PositionsAreTokenIndices ==
    (call.op = "index_document"
        /\ UrlPlaces(call.pre, call.document.url) = {}) =>
        LET stream == TokenStream(call.document) IN
        \A n \in 1 .. Len(stream) :
            LET postings == find_postings(index, stream[n])
                own == { i \in 1 .. Len(postings) :
                           postings[i].doc_id = call.ret }
            IN  /\ own # {}
                /\ \A i \in own :
                      Range(postings[i].positions) =
                          { m - 1 : m \in { j \in 1 .. Len(stream) :
                                              stream[j] = stream[n] } }

\* The positions of term in doc_id: those of the posting for doc_id in the
\* term's postings list (of the first one, should there be several).
PostingPositions(idx, term, doc_id) ==
    LET postings == find_postings(idx, term)
        own == { i \in 1 .. Len(postings) : postings[i].doc_id = doc_id }
    IN  IF own = {} THEN {}
        ELSE Range(postings[CHOOSE i \in own : \A j \in own : i <= j].positions)

\* C5: check_proximity_positions(doc, [t0..tk-1], d) is true iff some
\* position p of t0 in doc is such that every ti with 1 <= i < k has a
\* position q in doc with p <= q <= p + d; it is false whenever some ti has
\* no posting in doc.
C5_ProximityCheck ==
    (call.op = "check_proximity_positions") =>
        LET k == Len(call.terms)
            P(i) == PostingPositions(index, call.terms[i], call.doc_id)
        IN  /\ call.out.value =
                  (/\ k >= 1
                   /\ \E p \in P(1) : \A i \in 2 .. k : \E q \in P(i) :
                          p <= q /\ q <= p + call.max_distance)
            /\ (\E i \in 1 .. k : P(i) = {}) => (call.out.value = FALSE)

\* A proximity check over two or more terms that succeeds with a later term
\* strictly after the first one.
C5_Witness ==
    /\ call.op = "check_proximity_positions"
    /\ call.out.value = TRUE
    /\ Len(call.terms) >= 2
    /\ \E q \in PostingPositions(index, call.terms[2], call.doc_id) :
          \A p \in PostingPositions(index, call.terms[1], call.doc_id) : p < q

\* C6: load_from_file into a fresh index, of a file that save_to_file wrote
\* from an index built by index_document calls, returns true and preserves
\* the document count, each document's title and url, the set of terms and
\* the size of every term's postings list.
C6_SaveLoadRoundTrip ==
    (call.op = "load_from_file" /\ call.fresh /\ file # <<>> /\ saved.pure) =>
        /\ call.status = "true"
        /\ Len(ld.documents_) = Len(saved.idx.documents_)
        /\ \A i \in 1 .. Len(saved.idx.documents_) :
              /\ ld.documents_[i].title = saved.idx.documents_[i].title
              /\ ld.documents_[i].url = saved.idx.documents_[i].url
        /\ Range(get_all_terms(ld)) = Range(get_all_terms(saved.idx))
        /\ \A t \in Range(get_all_terms(saved.idx)) :
              /\ HasPostings(ld, t)
              /\ Len(find_postings(ld, t)) = Len(find_postings(saved.idx, t))

\* C7: add_document on a url already among the documents returns the id of
\* that document and does not grow the document count; on a new url it
\* returns the previous document count; afterwards documents[i].id = i and
\* get_document_by_url(url) is the document with the returned id.
C7_AddDocumentIds ==
    (call.op = "add_document") =>
        LET present == UrlPlaces(call.pre, call.document.url) IN
        /\ (present # {}) =>
              /\ \E i \in present : call.ret = call.pre.documents_[i].id
              /\ Len(index.documents_) = Len(call.pre.documents_)
        /\ (present = {}) =>
              /\ call.ret = Len(call.pre.documents_)
              /\ Len(index.documents_) = Len(call.pre.documents_) + 1
        /\ \A i \in 1 .. Len(index.documents_) : index.documents_[i].id = i - 1
        /\ get_document_by_url(index, call.document.url) = call.ret

\* C8: index_document on a url already among the documents returns the id
\* of that document, leaves every postings list as it was, and leaves the
\* stored length of that document unchanged (stated for an index that
\* index_document calls alone have built).
C8_ExistingUrlIsNotReindexed ==
    (call.op = "index_document" /\ hist.pure
        /\ UrlPlaces(call.pre, call.document.url) # {}) =>
        /\ \E i \in UrlPlaces(call.pre, call.document.url) :
              call.ret = call.pre.documents_[i].id
        /\ \A t \in Range(get_all_terms(index)) \cup Range(get_all_terms(call.pre)) :
              /\ HasPostings(index, t) = HasPostings(call.pre, t)
              /\ find_postings(index, t) = find_postings(call.pre, t)
        /\ \A i \in 1 .. Len(call.pre.documents_) :
              index.documents_[i].length = call.pre.documents_[i].length

\* One (doc_id, score 1.0, matches 1) record per member of S, ascending.
RecordsOf(S) ==
    LET ids == Ascending(S) IN [i \in 1 .. Len(ids) |-> DocumentResult(ids[i])]

\* C9: when evaluate(ast) returns, evaluate_detailed(ast) returns one record
\* per set bit, each with score 1.0 and matches 1, in ascending doc_id
\* order, and get_top_results(ast, n) returns the first min(n, number of
\* matches) of them.
C9_DetailedResults ==
    (call.op \in {"evaluate_detailed", "get_top_results"}) =>
        LET e == evaluate(index, call.ast) IN
        (e.status = "ok") =>
            LET all == RecordsOf(DocSet(e.bv)) IN
            /\ call.out.status = "ok"
            /\ call.out.results =
                  IF call.op = "evaluate_detailed" \/ call.n >= Len(all)
                  THEN all ELSE SubSeq(all, 1, call.n)

\* C10: evaluating the AST that optimize returns gives what evaluating the
\* AST before optimization gives.
C10_OptimizePreservesResult ==
    (call.op = "optimize") =>
        LET e == evaluate(index, call.ast) IN
        /\ call.out.status = e.status
        /\ (e.status = "ok") => DocSet(call.out.bv) = DocSet(e.bv)

RECURSIVE HasNotOfNot(_)
\* Some NOT node of the tree has a NOT node as its operand.
HasNotOfNot(node) ==
    CASE node.type = "NOT" ->
            node.operand.type = "NOT" \/ HasNotOfNot(node.operand)
      [] node.type \in {"AND", "OR"} ->
            HasNotOfNot(node.left) \/ HasNotOfNot(node.right)
      [] OTHER -> FALSE

\* C11: the tree parse returns has no NOT node directly under a NOT node,
\* and for a query that is "!!" followed by a sub-query A, parse returns
\* what it returns for A.
C11_DoubleNegationEliminated ==
    (call.op = "parse" /\ call.out.ast.status = "ok") =>
        /\ ~HasNotOfNot(call.out.ast.node)
        /\ (Len(call.query) > 2 /\ call.query[1] = 33 /\ call.query[2] = 33)
               => call.out.ast = parse(SubSeq(call.query, 3, Len(call.query)))

\* C12: for distinct terms a, b, c the query "a || b && c" parses to
\* OR(a, AND(b, c)), "!a && b" to AND(NOT(a), b), "a && b && c" to
\* AND(AND(a, b), c) and "(a || b) && c" to AND(OR(a, b), c).
C12_Precedence ==
    call.op = "parse" =>
        \A a \in ParserTerms, b \in ParserTerms, c \in ParserTerms :
            (a # b /\ a # c /\ b # c) =>
                LET A == TermNode(a)
                    B == TermNode(b)
                    C == TermNode(c)
                    tree == IF call.out.ast.status = "ok"
                            THEN call.out.ast.node ELSE call.out.ast.status
                IN  /\ call.query = q_or_and_of(a, b, c) =>
                           tree = BinaryOpNode("OR", A, BinaryOpNode("AND", B, C))
                    /\ call.query = q_not_and_of(a, b) =>
                           tree = BinaryOpNode("AND", UnaryOpNode(A), B)
                    /\ call.query = q_and_and_of(a, b, c) =>
                           tree = BinaryOpNode("AND", BinaryOpNode("AND", A, B), C)
                    /\ call.query = q_paren_and_of(a, b, c) =>
                           tree = BinaryOpNode("AND", BinaryOpNode("OR", A, B), C)

\* "zz && founded && technical" has been parsed to a tree.
C12_Witness ==
    /\ call.op = "parse"
    /\ call.query = q_and_and_of(w_zz, w_founded, w_technical)
    /\ call.out.ast.status = "ok"
    /\ call.out.ast.node.type = "AND"

\* The tree the grammar gives a query, as parse_expression builds it.
ParsedTree(query) ==
    LET run(lexed) == parse_expression(lexed.tokens, 0).node
    IN  run(query_tokenize(query))

RECURSIVE Matching(_)
\* The documents of the index that a query tree describes, read off the
\* documents' token streams.
Matching(node) ==
    CASE node.type = "TERM" ->
            { d \in AllDocs :
                  node.term \in Range(TokenStream(index.documents_[d + 1])) }
      [] node.type = "PHRASE" -> PhraseDocs(node.terms)
      [] node.type = "AND" -> Matching(node.left) \cap Matching(node.right)
      [] node.type = "OR"  -> Matching(node.left) \cup Matching(node.right)
      [] node.type = "NOT" -> AllDocs \ Matching(node.operand)

\* The SearchResult of a search that found the documents S.
FoundResult(S, limit) ==
    LET all(ids) == IF limit >= Len(ids) THEN ids ELSE SubSeq(ids, 1, limit)
    IN  SearchResult(all(Ascending(S)), Cardinality(S), TRUE, "")

\* Well-formed queries made of terms, &&, ||, ! and parentheses, no two
\* operands of one operator alike.
PlainQueries ==
    { q_founded, q_zz, q_not_founded, q_or_and, q_not_and, q_and_and,
      q_paren_and, q_paren_not, q_and }

\* C13: every search returns and increments total_queries by one and
\* exactly one of successful_queries and failed_queries by one; a search
\* with a malformed query returns syntax_valid = false, a non-empty
\* error_message and no doc_ids, and counts as failed; a search with a
\* well-formed query, after failed ones too, returns the matching documents
\* with syntax_valid = true.
C13_MalformedQueriesRecoverable ==
    (call.op = "search") =>
        /\ call.out.status = "ok"
        /\ stats_.total_queries = call.pre.total_queries + 1
        /\ \/ /\ stats_.successful_queries = call.pre.successful_queries + 1
              /\ stats_.failed_queries = call.pre.failed_queries
           \/ /\ stats_.successful_queries = call.pre.successful_queries
              /\ stats_.failed_queries = call.pre.failed_queries + 1
        /\ (call.query \in Malformed) =>
              /\ call.out.result.syntax_valid = FALSE
              /\ call.out.result.error_message # ""
              /\ call.out.result.doc_ids = <<>>
              /\ stats_.failed_queries = call.pre.failed_queries + 1
        /\ (call.query \in PlainQueries) =>
              call.out.result =
                  FoundResult(Matching(ParsedTree(call.query)), call.limit)

\* C14: a search with an empty query (the empty string, or spaces and
\* comments only) returns syntax_valid = true, no doc_ids, total_found = 0
\* and an empty error_message.
C14_EmptyQueryIsValid ==
    (call.op = "search" /\ call.query \in EmptyQueries) =>
        /\ call.out.status = "ok"
        /\ call.out.result = SearchResult(<<>>, 0, TRUE, "")

\* Queries validate_query has to accept: a single term, "a && b" and
\* "(a || b) && !c"
ValidExamples == { q_founded, q_zz, q_and, q_paren_not }

\* Queries validate_query has to reject: the empty query, one that starts
\* with a binary operator, one that ends with one, and empty parentheses
InvalidExamples == { q_empty, q_lead_op, q_trail_op, q_parens }

\* C15: validate_query(q) always returns, with true iff the grammar gives q
\* a tree that takes in all of its tokens; it returns true for the valid
\* examples and false for the invalid ones.
C15_ValidateQuery ==
    (call.op = "validate_query") =>
        /\ call.out.status = "ok"
        /\ call.out.value =
              LET accepts(lexed) ==
                      /\ lexed.status = "ok"
                      /\ Len(lexed.tokens) > 1
                      /\ LET whole(parsed) ==
                                 /\ parsed.status = "ok"
                                 /\ check("END", parsed.pos, lexed.tokens)
                         IN  whole(parse_expression(lexed.tokens, 0))
              IN  accepts(query_tokenize(call.query))
        /\ (call.query \in ValidExamples) => call.out.value = TRUE
        /\ (call.query \in InvalidExamples) => call.out.value = FALSE

\* Queries that are one word in double quotes
OneWordPhrases == { q_ph_founded, q_ph_Founded, q_ph_zz }

\* The word between the quotes
Unquoted(query) == SubSeq(query, 2, Len(query) - 1)

\* C17: a search for one word in double quotes, in any letter case, returns,
\* and returns what the search for the bare word returns on the same index.
C17_OneWordPhraseIsTerm ==
    (call.op = "search" /\ call.query \in OneWordPhrases) =>
        /\ call.out.status = "ok"
        /\ call.out \in search(index, Unquoted(call.query), call.limit)

\* The postings lists an index holds, one per live slot of index_.
PostingLists(idx) ==
    { idx.index_.table_[i].value :
          i \in { j \in 0 .. idx.index_.capacity_ - 1 :
                      idx.index_.table_[j].occupied
                          /\ ~idx.index_.table_[j].deleted } }

\* The postings of an index
AllPostings(idx) == UNION { Range(list) : list \in PostingLists(idx) }

\* Position consistency of an index
PositionConsistency(idx) ==
    \A p \in AllPostings(idx) :
        /\ Len(p.positions) = p.frequency
        /\ Cardinality(Range(p.positions)) = Len(p.positions)

\* C18: after every index_document, clear, save_to_file and load_from_file,
\* in any order, every posting of the index the operations build and of
\* the index they load has as many positions as its frequency says, and
\* its positions are pairwise distinct.
C18_PositionConsistency ==
    /\ PositionConsistency(index)
    /\ PositionConsistency(ld)

\* C16: evaluating a PHRASE or PROXIMITY node on an index that
\* load_from_file has filled returns the empty document set.
C16_LoadedPhraseIsEmpty ==
    (call.op = "evaluate_loaded") =>
        /\ call.out.status = "ok"
        /\ DocSet(call.out.bv) = {}

\* The doc_ids of a postings list increase strictly.
StrictlyIncreasing(list) ==
    \A k \in 1 .. Len(list) - 1 : list[k].doc_id < list[k + 1].doc_id

\* C19: after optimize_index, following index_document calls that may repeat
\* a url, every postings list has strictly increasing doc_ids.
C19_OptimizedListsStrictlyIncrease ==
    (call.op = "optimize_index") =>
        \A list \in PostingLists(index) : StrictlyIncreasing(list)

\* The entries of url_to_doc_id_
UrlEntries(idx) ==
    { idx.url_to_doc_id_.table_[i] :
          i \in { j \in 0 .. idx.url_to_doc_id_.capacity_ - 1 :
                      idx.url_to_doc_id_.table_[j].occupied
                          /\ ~idx.url_to_doc_id_.table_[j].deleted } }

\* The invariants of the data model: documents[i].id = i, every url entry
\* points to a document with that url, every posting's doc_id is below the
\* document count, and position consistency.
DataModelInvariants(idx) ==
    /\ \A i \in 1 .. Len(idx.documents_) : idx.documents_[i].id = i - 1
    /\ \A e \in UrlEntries(idx) :
          /\ e.value < Len(idx.documents_)
          /\ idx.documents_[e.value + 1].url = e.key
    /\ \A p \in AllPostings(idx) : p.doc_id < Len(idx.documents_)
    /\ PositionConsistency(idx)

\* C20: validate() returns true iff the invariants of the data model hold
\* in the current state of the index.
C20_ValidateIffInvariants ==
    (call.op = "validate") => (call.ret = DataModelInvariants(index))

\* The uint32_t stored pos bytes into a file
FileU32(bytes, pos) == U32(SubSeq(bytes, pos + 1, pos + 4))

\* The uint64_t stored pos bytes into a file
FileU64(bytes, pos) == U64(SubSeq(bytes, pos + 1, pos + 8))

\* The document and term counts a file's header announces
AnnouncedDocs(bytes) == FileU32(bytes, 12)

AnnouncedTerms(bytes) == FileU32(bytes, 16)

RECURSIVE DocsEnd(_,_,_)
\* The offset at which n document records that start at pos end, or -1 when
\* the file ends before that.
DocsEnd(bytes, pos, n) ==
    IF n = 0 THEN pos
    ELSE IF pos + 8 > Len(bytes) THEN -1
    ELSE LET url_at(title_end) ==
                 IF title_end + 4 > Len(bytes) THEN -1
                 ELSE LET rest(url_end) ==
                              IF url_end + 8 > Len(bytes) THEN -1
                              ELSE DocsEnd(bytes, url_end + 8, n - 1)
                      IN  rest(title_end + 4 + FileU32(bytes, title_end))
         IN  url_at(pos + 8 + FileU32(bytes, pos + 4))

\* The k-th entry of the offset table that starts at table
OffsetEntry(bytes, table, k) ==
    [term_length   |-> FileU32(bytes, table + sizeof_TermOffset * (k - 1)),
     posting_count |-> FileU32(bytes, table + sizeof_TermOffset * (k - 1) + 4),
     file_offset   |-> FileU64(bytes, table + sizeof_TermOffset * (k - 1) + 8)]

\* C21: load_from_file returns false for every file whose first eight bytes
\* are not BOOLIDX\0 or whose version field is not 1.
C21_HeaderChecked ==
    (/\ call.op = "load_from_file"
     /\ Len(file) >= 12
     /\ \/ SubSeq(file, 1, 8) # SIGNATURE
        \/ FileU32(file, 8) # header_version)
        => call.status = "false"

\* A file holds a complete index: the header, the documents and offset
\* entries it announces, and at each entry's file_offset the term and its
\* postings.
CompleteFile(bytes) ==
    /\ Len(bytes) >= sizeof_FileHeader
    /\ SubSeq(bytes, 1, 8) = SIGNATURE
    /\ LET whole(table) ==
               /\ table >= 0
               /\ table + sizeof_TermOffset * AnnouncedTerms(bytes) <= Len(bytes)
               /\ \A k \in 1 .. AnnouncedTerms(bytes) :
                     LET record(e) ==
                             /\ e.file_offset + e.term_length + 4 <= Len(bytes)
                             /\ FileU32(bytes, e.file_offset + e.term_length)
                                  <= (Len(bytes) - e.file_offset
                                          - e.term_length - 4) \div 8
                     IN  record(OffsetEntry(bytes, table, k))
       IN  whole(DocsEnd(bytes, sizeof_FileHeader, AnnouncedDocs(bytes)))

\* C22: when the file cannot be opened, has a bad signature or ends before
\* everything it announces is read, load_from_file returns false and leaves
\* the index (documents, terms, url index, stats) as it was.
C22_FailedLoadLeavesIndex ==
    (call.op = "load_from_file" /\ ~CompleteFile(file)) =>
        /\ call.status = "false"
        /\ ld = call.pre

\* C28: in a file save_to_file has written, the k-th entry of the offset
\* table holds the offset at which the k-th term record begins, and the
\* bytes at that offset are the k-th term followed by its posting count.
C28_OffsetsPointAtRecords ==
    (call.op = "save_to_file") =>
        LET terms == keys(index.index_)
            table == DocsEnd(file, sizeof_FileHeader, Len(index.documents_))
            RecordSize(k) == Len(terms[k]) + 4
                                 + 8 * Len(find_postings(index, terms[k]))
            RECURSIVE RecordStart(_)
            RecordStart(k) ==
                IF k = 1 THEN table + sizeof_TermOffset * Len(terms)
                ELSE RecordStart(k - 1) + RecordSize(k - 1)
        IN  \A k \in 1 .. Len(terms) :
                LET e == OffsetEntry(file, table, k) IN
                /\ e.file_offset = RecordStart(k)
                /\ SubSeq(file, e.file_offset + 1,
                          e.file_offset + e.term_length) = terms[k]
                /\ FileU32(file, e.file_offset + e.term_length)
                       = Len(find_postings(index, terms[k]))

\* C23: every token tokenize and tokenize_with_positions emit has a length
\* within [min_token_length, max_token_length] and is not a stop-word, also
\* for texts with runs of letters longer than max_token_length.
C23_TokensWithinBounds ==
    (call.op \in {"tokenize", "tokenize_with_positions"}) =>
        \A i \in 1 .. Len(call.tokens) :
            LET within(token) ==
                    /\ Len(token) >= min_token_length_
                    /\ Len(token) <= max_token_length_
                    /\ ~is_stopword(token)
            IN  within(IF call.op = "tokenize" THEN call.tokens[i]
                       ELSE call.tokens[i].token)

\* The index holds the scenario corpus: doc 0, doc 1, doc 2 in this order.
ScenarioIndexed ==
    /\ get_document_count(index) = Len(ScenarioCorpus)
    /\ \A k \in 1 .. Len(ScenarioCorpus) :
          /\ index.documents_[k].url = ScenarioCorpus[k].url
          /\ index.documents_[k].content = ScenarioCorpus[k].content

\* C24: on the index built from doc 0 'red car fast', doc 1 'blue car slow',
\* doc 2 'red motorbike fast', a search for '(red || blue) && fast' returns
\* and its doc_ids are exactly [0].
C24_Scenario4 ==
    (call.op = "search" /\ call.query = q_scenario4 /\ ScenarioIndexed) =>
        /\ call.out.status = "ok"
        /\ call.out.result.doc_ids = <<0>>

\* The index holds the corpus of the phrase test: doc 0, doc 1, doc 2 in the
\* order of the scenario.
CorpusIndexed ==
    /\ get_document_count(index) = 3
    /\ index.documents_[1].url = w_m0
    /\ index.documents_[2].url = w_m1
    /\ index.documents_[3].url = w_m2

\* C25: on the index built from doc 0 'moscow aviation institute founded
\* 1930', doc 1 'aviation institute in moscow is called mai', doc 2 'moscow
\* institute aviation technical', a search for "moscow institute" / 3 with a
\* limit of three or more returns and its doc_ids are exactly [0, 1, 2].
C25_Scenario6 ==
    (call.op = "search" /\ call.query = q_near /\ call.limit >= 3
        /\ CorpusIndexed) =>
        /\ call.out.status = "ok"
        /\ call.out.result.doc_ids = <<0, 1, 2>>

\* C27: find_next(pos) returns the smallest index greater than pos whose bit
\* is set, or size() when there is none or when pos >= size(); find_first
\* returns the smallest index whose bit is set, or size().
C27_FindNextIsStrict ==
    LET least(S, size) ==
            IF S = {} THEN size ELSE CHOOSE i \in S : \A j \in S : i <= j
    IN  /\ (call.op = "find_next") =>
              call.ret = IF call.pos >= call.bv.size_ THEN call.bv.size_
                         ELSE least({ i \in DocSet(call.bv) : i > call.pos },
                                    call.bv.size_)
        /\ (call.op = "find_first") =>
              call.ret = least(DocSet(call.bv), call.bv.size_)

\* C26: every call of evaluate, evaluate_detailed, count_results and search
\* terminates: each of its loops 'i = find_first(); i < size();
\* i = find_next(i)' reaches size(), so the call returns and its caller goes
\* on, also when the index holds matching documents.
C26_QueriesTerminate ==
    (call.op \in {"evaluate", "evaluate_detailed", "count_results", "search"})
        ~> (call = NoCall)

\* The nodes released while parse ran and when the caller deletes the root
\* it was given, in order; a node is named by its path in the parsed tree.
Released(r) ==
    IF r.status = "double_free" THEN Append(r.freed, r.deleted_again)
    ELSE r.freed \o delete_node(r.node, <<>>)

\* The path of the node parse handed back: the root, or after the double
\* delete the left operand of the node optimize gave up.
ReturnedPath(r) ==
    IF r.status = "double_free"
    THEN Append(SubSeq(r.deleted_again, 1, Len(r.deleted_again) - 1), 1)
    ELSE <<>>

\* C29: the tree parse returns owns its nodes exclusively: no node is freed
\* more than once during optimize or when the caller deletes the root, and
\* the node handed back is live (not freed) when parse returns, also for
\* queries whose AND/OR operands print the same string.
C29_ExclusiveOwnership ==
    (call.op = "parse" /\ call.out.ast # NullAST) =>
        LET owned(r) ==
                /\ \A i, j \in 1 .. Len(Released(r)) :
                      i # j => Released(r)[i] # Released(r)[j]
                /\ \A i \in 1 .. Len(r.freed) : r.freed[i] # ReturnedPath(r)
        IN  owned(call.out.ast)

\* C30: after any sequence of insert and erase calls find, contains, size
\* and keys of the hash table agree with the map the same calls describe:
\* a key is found exactly when the map holds it, and then with the map's
\* value; size() is the number of keys of the map; keys() lists each key of
\* the map once (one live slot per key); insert leaves its key findable and
\* after erase(k) find(k) is null.
C30_TableRefinesMap ==
    /\ \A key \in TableKeys :
          /\ contains(hash_table, key) <=> key \in DOMAIN abstract_map
          /\ (find(hash_table, key) < hash_table.capacity_
                  /\ key \in DOMAIN abstract_map) =>
                hash_table.table_[find(hash_table, key)].value
                    = abstract_map[key]
    /\ hash_table.size_ = Cardinality(DOMAIN abstract_map)
    /\ Len(keys(hash_table)) = Cardinality(DOMAIN abstract_map)
    /\ Range(keys(hash_table)) = DOMAIN abstract_map
    /\ (call.op = "insert") => contains(hash_table, call.key)
    /\ (call.op = "erase") => ~contains(hash_table, call.key)

====
